---- MODULE Spec2Model ----
(***************************************************************************)
(* A model of the nan0db Store (class DB), its traversal generator         *)
(* readDir, the one-shot find, the progress stream findStream and the      *)
(* cache operations get / set / stat / push.                               *)
(*                                                                         *)
(* A URI is the sequence of its "/"-separated segments: "./a/x.txt" is     *)
(* <<".", "a", "x.txt">>, the empty string is << >>.  String equality of   *)
(* URIs is equality of these sequences.  A JavaScript Map is a sequence    *)
(* of [k, v] records with distinct keys, in insertion order.               *)
(***************************************************************************)
EXTENDS Integers, Sequences, FiniteSets, TLC

VARIABLES
    tree,       \* the back-end's directory tree (index into Trees)
    denied,     \* the back-end's access predicate: the <<uri, level>> pairs it rejects
    fsStat,     \* the back-end's stat of every document it holds
    fsDoc,      \* the back-end's stored document contents
    now,        \* Date.now()
    connected,  \* DB.connected
    data,       \* DB.data  (Map uri -> value | false)
    meta,       \* DB.meta  (Map uri -> DocumentStat)
    root,       \* DB.root
    cwd,        \* DB.cwd
    dbs,        \* DB.dbs
    gen,        \* the generator in flight (readDir / find / findStream) or the idle record
    st,         \* findStream's local state: files, dirs, top, errors, totalSize, fulfilled
    out,        \* what the current (or last) operation yielded to its consumer, in order
    calls,      \* back-end primitives (and access checks) the current operation invoked
    last,       \* the last operation: its name, arguments, result, error
    pre,        \* data and meta as they were when the current operation was called
    hist,       \* history of find calls: traversals begun, whether one was cut short;
                \* the get that is awaiting its loadDocument, the password reset
                \* that is awaiting the database
    ops,        \* number of operations started
    tokens,     \* AuthDB.tokens (Map token -> {time, username})
    users       \* the users' info.json documents of the AuthDB, by username

vars == <<tree, denied, fsStat, fsDoc, now, connected, data, meta, root, cwd, dbs,
          gen, st, out, calls, last, pre, hist, ops, tokens, users>>

-----------------------------------------------------------------------------
(* Bounds of the model *)

\* operations called in one behaviour of the whole Store
MaxOps == 2
\* operations called in one behaviour of the cache operations alone
MaxStoreOps == 3
\* operations called in one behaviour of find with get and set
MaxFindOps == 3
\* traversals started in one behaviour of readDir alone, and of findStream alone
MaxWalks == 1
\* the last value of the clock
MaxTime == 2
\* calls of attach, detach and extract in one behaviour of the branch operations
MaxBranchOps == 4
\* connect, disconnect and requireConnected calls in one behaviour
MaxConnectOps == 5
\* calls in one chain of flatten and unflatten
MaxDataOps == 3
\* requests to the auth server in one behaviour, and the hours its clock runs
MaxAuthOps == 4
MaxAuthTime == 4
MaxSupplied == 3
MaxUnsavedOps == 3
MaxRaceOps == 3
MaxResetOps == 3

-----------------------------------------------------------------------------
(* Values *)

\* the `false` placeholder of DB.data: known to exist, not loaded
FalseSentinel == "<false>"
\* what Map.get answers for an absent key
Undefined == "<undefined>"
\* loadDocument's default value for a document the back-end does not hold
EmptyDoc == ""

RootUri == <<".">>
LoadedKey == <<"?loaded">>

\* new DocumentStat(input): every field defaults to 0 / false / null
DocumentStat(input) ==
    [isDirectory    |-> IF "isDirectory" \in DOMAIN input THEN input.isDirectory ELSE FALSE,
     isFile         |-> IF "isFile" \in DOMAIN input THEN input.isFile ELSE FALSE,
     isSymbolicLink |-> IF "isSymbolicLink" \in DOMAIN input THEN input.isSymbolicLink ELSE FALSE,
     mtimeMs        |-> IF "mtimeMs" \in DOMAIN input THEN input.mtimeMs ELSE 0,
     size           |-> IF "size" \in DOMAIN input THEN input.size ELSE 0,
     error          |-> IF "error" \in DOMAIN input THEN input.error ELSE "null"]

DefaultStat == DocumentStat([x \in {} |-> 0])

DirStat(m) == DocumentStat([isDirectory |-> TRUE, mtimeMs |-> m])
FileStat(m, s) == DocumentStat([isFile |-> TRUE, mtimeMs |-> m, size |-> s])

-----------------------------------------------------------------------------
(* JavaScript Map: insertion-ordered, set() replaces in place or appends *)

MapKeys(m) == {m[i].k : i \in 1..Len(m)}
MapHas(m, k) == \E i \in 1..Len(m) : m[i].k = k
MapGet(m, k) ==
    IF MapHas(m, k) THEN m[CHOOSE i \in 1..Len(m) : m[i].k = k].v ELSE Undefined
MapSet(m, k, v) ==
    IF MapHas(m, k)
    THEN [i \in 1..Len(m) |-> IF m[i].k = k THEN [k |-> k, v |-> v] ELSE m[i]]
    ELSE Append(m, [k |-> k, v |-> v])
EmptyMap == << >>

-----------------------------------------------------------------------------
(* Paths *)

\* args.filter(Boolean).join("/") on segment sequences
resolve(a, b) == a \o b

IsPrefix(p, q) == Len(p) <= Len(q) /\ SubSeq(q, 1, Len(p)) = p

\* the back-end's relative(from, to): `to` without a leading `from + "/"`
relative(from, to) ==
    IF IsPrefix(from, to) /\ Len(to) > Len(from)
    THEN SubSeq(to, Len(from) + 1, Len(to))
    ELSE to

-----------------------------------------------------------------------------
(* The back-end: an external collaborator supplying listDir, statDocument,  *)
(* loadDocument, saveDocument and the access predicate.  The trees below    *)
(* are the environments the Store is run against.                           *)

A == <<".", "a">>
B == <<".", "b.txt">>
C == <<".", "c">>
AX == <<".", "a", "x.txt">>
AY == <<".", "a", "y.txt">>
AD == <<".", "a", "d">>
ADY == <<".", "a", "d", "y.txt">>
CZ == <<".", "c", "z.txt">>
CW == <<".", "c", "w.txt">>
Missing == <<"missing.txt">>

\* an empty root directory
TreeEmpty ==
    [list |-> (RootUri :> << >>),
     stat |-> (RootUri :> DirStat(1)),
     doc  |-> [x \in {} |-> EmptyDoc]]

\* { a/{x.txt, y.txt}, b.txt }, the root listing the file first
TreeExample ==
    [list |-> (RootUri :> <<"b.txt", "a">>) @@ (A :> <<"x.txt", "y.txt">>),
     stat |-> (RootUri :> DirStat(1)) @@ (A :> DirStat(1)) @@ (B :> FileStat(1, 3))
              @@ (AX :> FileStat(1, 2)) @@ (AY :> FileStat(1, 1)),
     doc  |-> (B :> "v1") @@ (AX :> FalseSentinel) @@ (AY :> "v1")]

\* two directories, four files: { a/{x.txt, y.txt}, c/{z.txt, w.txt} }
TreeTwoDirs ==
    [list |-> (RootUri :> <<"a", "c">>) @@ (A :> <<"x.txt", "y.txt">>)
              @@ (C :> <<"z.txt", "w.txt">>),
     stat |-> (RootUri :> DirStat(1)) @@ (A :> DirStat(1)) @@ (C :> DirStat(1))
              @@ (AX :> FileStat(1, 2)) @@ (AY :> FileStat(1, 1))
              @@ (CZ :> FileStat(1, 4)) @@ (CW :> FileStat(1, 3)),
     doc  |-> (AX :> "v1") @@ (AY :> "v1") @@ (CZ :> "v1") @@ (CW :> "v1")]

\* three levels: { b.txt, a/{x.txt, d/{y.txt}} }, files listed before directories,
\* the deepest level older than the rest
TreeNested ==
    [list |-> (RootUri :> <<"b.txt", "a">>) @@ (A :> <<"x.txt", "d">>)
              @@ (AD :> <<"y.txt">>),
     stat |-> (RootUri :> DirStat(1)) @@ (A :> DirStat(1)) @@ (AD :> DirStat(0))
              @@ (B :> FileStat(1, 3)) @@ (AX :> FileStat(1, 2))
              @@ (ADY :> FileStat(0, 1)),
     doc  |-> (B :> "v1") @@ (AX :> "v1") @@ (ADY :> "v1")]

\* a back-end reporting a failed stat and a symbolic link:
\* { b.txt (its stat failed), c -> a linked directory {z.txt}, a/{y.txt} }
TreeFaulty ==
    [list |-> (RootUri :> <<"b.txt", "c", "a">>) @@ (C :> <<"z.txt">>)
              @@ (A :> <<"y.txt">>),
     stat |-> (RootUri :> DirStat(1))
              @@ (C :> DocumentStat([isDirectory |-> TRUE, isSymbolicLink |-> TRUE,
                                     mtimeMs |-> 1]))
              @@ (B :> DocumentStat([error |-> "EACCES"]))
              @@ (A :> DirStat(1))
              @@ (CZ :> FileStat(1, 4)) @@ (AY :> FileStat(1, 1)),
     doc  |-> (CZ :> "v1") @@ (AY :> "v1")]

Trees == <<TreeEmpty, TreeExample, TreeTwoDirs, TreeNested, TreeFaulty>>

\* the access predicates the Store is run against: the <<uri, level>> pairs rejected
AccessOptions ==
    { {},
      {<<A, "r">>},
      {<<B, "r">>},
      {<<B, "w">>} }

\* ensureAccess(uri, level): the level must be r, w or d; the back-end decides the rest
ensureAccess(uri, level) ==
    /\ level \in {"r", "w", "d"}
    /\ <<uri, level>> \notin denied

\* statDocument(uri): the back-end's stat, an empty stat for what it does not hold
statDocument(uri) ==
    IF uri \in DOMAIN fsStat THEN fsStat[uri] ELSE DefaultStat

\* listDir(uri): the immediate children, name and stat, in the back-end's order
listDir(uri) ==
    LET names == IF uri \in DOMAIN Trees[tree].list THEN Trees[tree].list[uri] ELSE << >>
    IN  [i \in 1..Len(names) |->
            [name |-> <<names[i]>>, stat |-> statDocument(resolve(uri, <<names[i]>>))]]

\* loadDocument(uri, defaultValue = "")
loadDocument(uri) ==
    IF uri \in DOMAIN fsDoc THEN fsDoc[uri] ELSE EmptyDoc

\* a function with one point added or replaced
Update(f, x, y) == [z \in DOMAIN f \cup {x} |-> IF z = x THEN y ELSE f[z]]

-----------------------------------------------------------------------------
(* Inputs of the operations *)

\* URIs handed to get / set / stat / push(uri)
OpUris == {B, AX, Missing}
\* values handed to set
Values == {"v2"}

-----------------------------------------------------------------------------
(* State after construction: new DB() on top of a back-end *)

NoGen ==
    [kind |-> "none", status |-> "idle", phase |-> "none", suspended |-> FALSE,
     stack |-> << >>, filter |-> "all", skipSymbolicLink |-> FALSE,
     pending |-> << >>, arg |-> << >>, pred |-> "none", depth |-> 0,
     limit |-> -1, sort |-> "name", order |-> "asc", traversed |-> FALSE]

NoStream ==
    [files |-> << >>, dirs |-> EmptyMap, top |-> EmptyMap, errors |-> EmptyMap,
     totalSize |-> [dirs |-> 0, files |-> 0], heap |-> [x \in {} |-> 0]]

NoLast == [op |-> "new", uri |-> << >>, arg |-> Undefined, ret |-> Undefined, err |-> "none"]

\* new User(input): the fields of a user document (src/server/User.js)
User(name, role, isPublic, resetCode) ==
    [name |-> name, email |-> <<name, "@localhost">>, passwordHash |-> <<"sha256", "pw">>,
     verified |-> TRUE, verificationCode |-> "", resetCode |-> resetCode,
     resetCodeAt |-> "null", role |-> role, createdAt |-> 1, updatedAt |-> 1,
     isPublic |-> isPublic]

\* the user documents of a running server: root, which start() creates, a signed-up
\* user who asked for a password reset, and a user whose document is public
StoredUsers ==
    [n \in {"root", "alice", "bob"} |->
        CASE n = "root" -> User("root", "root", FALSE, "")
          [] n = "alice" -> User("alice", "user", FALSE, "654321")
          [] n = "bob" -> User("bob", "user", TRUE, "")]

Init ==
    /\ tree \in 1..Len(Trees)
    /\ denied \in AccessOptions
    /\ fsStat = Trees[tree].stat
    /\ fsDoc = Trees[tree].doc
    /\ now = 1
    /\ connected = FALSE
    /\ data = EmptyMap
    /\ meta = EmptyMap
    /\ root = RootUri
    /\ cwd = RootUri
    /\ dbs = << >>
    /\ gen = NoGen
    /\ st = NoStream
    /\ out = << >>
    /\ calls = << >>
    /\ last = NoLast
    /\ pre = [data |-> EmptyMap, meta |-> EmptyMap, fsStat |-> Trees[tree].stat,
              dbs |-> << >>, connected |-> FALSE]
    /\ hist = [traversals |-> 0, cut |-> FALSE, finds |-> 0, attached |-> {},
               loading |-> << >>, reset |-> << >>]
    /\ ops = 0
    /\ tokens = << >>
    /\ users = StoredUsers

\* no generator is suspended: the Store is used by one caller at a time
Idle == gen.status # "running"

\* an operation is called: the logs of the previous one are dropped
Begin ==
    /\ Idle
    /\ ops' = ops + 1
    /\ pre' = [data |-> data, meta |-> meta, fsStat |-> fsStat, dbs |-> dbs,
               connected |-> connected]

Backend == <<tree, denied, fsStat, fsDoc>>
AuthData == <<tokens, users>>
Config == <<root, cwd, dbs>>

-----------------------------------------------------------------------------
(* connect / disconnect / the clock *)

connect ==
    /\ Begin
    /\ connected' = TRUE
    /\ last' = [op |-> "connect", uri |-> << >>, arg |-> Undefined, ret |-> Undefined, err |-> "none"]
    /\ gen' = NoGen /\ st' = NoStream /\ out' = << >> /\ calls' = << >>
    /\ UNCHANGED <<Backend, AuthData, Config, now, data, meta, hist>>

disconnect ==
    /\ Begin
    /\ connected' = FALSE
    /\ last' = [op |-> "disconnect", uri |-> << >>, arg |-> Undefined, ret |-> Undefined, err |-> "none"]
    /\ gen' = NoGen /\ st' = NoStream /\ out' = << >> /\ calls' = << >>
    /\ UNCHANGED <<Backend, AuthData, Config, now, data, meta, hist>>

\* what the platform's connect() leaves in this.connected: the base class sets
\* true, a back-end whose connection fails leaves false
ConnectResults == {TRUE, FALSE}

MustConnectAlways(c) == TRUE

\* requireConnected: if (!this.connected) await this.connect()
MustConnect(c) == ~c

\* async requireConnected(), on a platform whose connect() leaves result
requireConnected(result) ==
    /\ Begin
    /\ gen' = NoGen /\ st' = NoStream /\ out' = << >>
    /\ calls' = IF MustConnect(connected) THEN << <<"connect">> >> ELSE << >>
    /\ connected' = IF MustConnect(connected) THEN result ELSE connected
    /\ last' = [op |-> "requireConnected", uri |-> << >>, arg |-> Undefined,
                ret |-> Undefined,
                err |-> IF ~connected' THEN "DB is not connected" ELSE "none"]
    /\ UNCHANGED <<Backend, AuthData, Config, now, data, meta, hist>>

\* time passes between two operations
Tick ==
    /\ Idle
    /\ now < MaxTime
    /\ now' = now + 1
    /\ UNCHANGED <<Backend, AuthData, Config, connected, data, meta, gen, st, out, calls, last,
                   pre, hist, ops>>

-----------------------------------------------------------------------------
(* get / set / stat *)

NeedsLoadAlways(m, uri) == TRUE
NeedsLoadAbsent(m, uri) == ~MapHas(m, uri)

\* get: !this.data.has(uri) || false === this.data.get(uri)
NeedsLoad(m, uri) == ~MapHas(m, uri) \/ MapGet(m, uri) = FalseSentinel

\* async get(uri)
get(uri) ==
    /\ Begin
    /\ gen' = NoGen /\ st' = NoStream /\ out' = << >>
    /\ IF ~ensureAccess(uri, "r")
       THEN /\ calls' = << <<"ensureAccess", uri, "r">> >>
            /\ last' = [op |-> "get", uri |-> uri, arg |-> Undefined, ret |-> Undefined, err |-> "AccessDenied"]
            /\ UNCHANGED data
       ELSE IF NeedsLoad(data, uri)
       THEN /\ calls' = << <<"ensureAccess", uri, "r">>, <<"loadDocument", uri>> >>
            /\ data' = MapSet(data, uri, loadDocument(uri))
            /\ last' = [op |-> "get", uri |-> uri, arg |-> Undefined, ret |-> MapGet(data', uri), err |-> "none"]
       ELSE /\ calls' = << <<"ensureAccess", uri, "r">> >>
            /\ last' = [op |-> "get", uri |-> uri, arg |-> Undefined, ret |-> MapGet(data, uri), err |-> "none"]
            /\ UNCHANGED data
    /\ UNCHANGED <<Backend, AuthData, Config, now, connected, meta, hist>>

\* get(uri) up to `await this.loadDocument(uri)`: the caller is suspended while the
\* back-end reads the document, and other calls into the Store may run
getAwait(uri) ==
    /\ hist.loading = << >>
    /\ ensureAccess(uri, "r") /\ NeedsLoad(data, uri)
    /\ Begin
    /\ gen' = NoGen /\ st' = NoStream /\ out' = << >>
    /\ calls' = << <<"ensureAccess", uri, "r">>, <<"loadDocument", uri>> >>
    /\ hist' = [hist EXCEPT !.loading = << [uri |-> uri, doc |-> loadDocument(uri)] >>]
    /\ last' = [op |-> "get", uri |-> uri, arg |-> Undefined, ret |-> Undefined, err |-> "none"]
    /\ UNCHANGED <<Backend, AuthData, Config, now, connected, data, meta>>

\* the load is over: the document is what the back-end held when the load began or
\* what it holds now
Loaded == {hist.loading[1].doc, loadDocument(hist.loading[1].uri)}

getResumeIfMissing ==
    /\ hist.loading # << >>
    /\ \E d \in Loaded :
          /\ data' = IF NeedsLoad(data, hist.loading[1].uri)
                     THEN MapSet(data, hist.loading[1].uri, d)
                     ELSE data
          /\ last' = [op |-> "get", uri |-> hist.loading[1].uri, arg |-> Undefined,
                      ret |-> MapGet(data', hist.loading[1].uri), err |-> "none"]
    /\ hist' = [hist EXCEPT !.loading = << >>]
    /\ UNCHANGED <<Backend, AuthData, Config, now, connected, meta, gen, st, out, calls, pre,
                   ops>>

\* get(uri) from the end of the await: this.data.set(uri, data); return this.data.get(uri)
getResume ==
    /\ hist.loading # << >>
    /\ \E d \in Loaded :
          /\ data' = MapSet(data, hist.loading[1].uri, d)
          /\ last' = [op |-> "get", uri |-> hist.loading[1].uri, arg |-> Undefined,
                      ret |-> MapGet(data', hist.loading[1].uri), err |-> "none"]
    /\ hist' = [hist EXCEPT !.loading = << >>]
    /\ UNCHANGED <<Backend, AuthData, Config, now, connected, meta, gen, st, out, calls, pre,
                   ops>>

StampFresh(old, t) == DocumentStat([mtimeMs |-> t])

\* { ...meta, mtimeMs: Date.now() } through new DocumentStat
Stamp(old, t) == DocumentStat([old EXCEPT !.mtimeMs = t])

\* async set(uri, data)
set(uri, value) ==
    /\ Begin
    /\ gen' = NoGen /\ st' = NoStream /\ out' = << >>
    /\ calls' = << <<"ensureAccess", uri, "w">> >>
    /\ IF ~ensureAccess(uri, "w")
       THEN /\ last' = [op |-> "set", uri |-> uri, arg |-> value, ret |-> Undefined,
                        err |-> "AccessDenied"]
            /\ UNCHANGED <<data, meta>>
       ELSE /\ data' = MapSet(data, uri, value)
            /\ meta' = MapSet(meta, uri,
                    IF MapHas(meta, uri)
                    THEN Stamp(MapGet(meta, uri), now)
                    ELSE DocumentStat([mtimeMs |-> now]))
            /\ last' = [op |-> "set", uri |-> uri, arg |-> value, ret |-> value, err |-> "none"]
    /\ UNCHANGED <<Backend, AuthData, Config, now, connected, hist>>

\* async stat(uri)
stat(uri) ==
    /\ Begin
    /\ gen' = NoGen /\ st' = NoStream /\ out' = << >>
    /\ IF ~ensureAccess(uri, "r")
       THEN /\ calls' = << <<"ensureAccess", uri, "r">> >>
            /\ last' = [op |-> "stat", uri |-> uri, arg |-> Undefined, ret |-> Undefined, err |-> "AccessDenied"]
            /\ UNCHANGED meta
       ELSE IF ~MapHas(meta, uri)
       THEN /\ calls' = << <<"ensureAccess", uri, "r">>, <<"statDocument", uri>> >>
            /\ meta' = MapSet(meta, uri, statDocument(uri))
            /\ last' = [op |-> "stat", uri |-> uri, arg |-> Undefined, ret |-> MapGet(meta', uri), err |-> "none"]
       ELSE /\ calls' = << <<"ensureAccess", uri, "r">> >>
            /\ last' = [op |-> "stat", uri |-> uri, arg |-> Undefined, ret |-> MapGet(meta, uri), err |-> "none"]
            /\ UNCHANGED meta
    /\ UNCHANGED <<Backend, AuthData, Config, now, connected, data, hist>>

-----------------------------------------------------------------------------
(* attach / detach: the Stores registered in dbs *)

\* the Store instances handed to attach and detach: an instance has an identity,
\* and two instances may have the same root and cwd (the constructor's defaults)
DbInstances ==
    { [id |-> 1, root |-> RootUri, cwd |-> RootUri],
      [id |-> 2, root |-> RootUri, cwd |-> RootUri],
      [id |-> 3, root |-> A, cwd |-> RootUri] }
\* a plain object, not a Store
NotADb == [id |-> 0, root |-> << >>, cwd |-> << >>]

IsDbAlways(db) == TRUE

\* db instanceof DB
IsDb(db) == db.id > 0

\* attach(db)
attach(db) ==
    /\ Begin
    /\ gen' = NoGen /\ st' = NoStream /\ out' = << >> /\ calls' = << >>
    /\ IF ~IsDb(db)
       THEN /\ last' = [op |-> "attach", uri |-> << >>, arg |-> db, ret |-> Undefined,
                        err |-> "TypeError"]
            /\ UNCHANGED <<dbs, hist>>
       ELSE /\ dbs' = Append(dbs, db)
            /\ hist' = [hist EXCEPT !.attached = @ \cup {db.id}]
            /\ last' = [op |-> "attach", uri |-> << >>, arg |-> db, ret |-> Undefined,
                        err |-> "none"]
    /\ UNCHANGED <<Backend, AuthData, root, cwd, now, connected, data, meta>>

findIndexLast(list, db) ==
    LET hits == {i \in 1..Len(list) : list[i].root = db.root /\ list[i].cwd = db.cwd}
    IN  IF hits = {} THEN 0 ELSE CHOOSE i \in hits : \A j \in hits : j <= i

\* this.dbs.findIndex((d) => d.root === db.root && d.cwd === db.cwd), counted from
\* 1, with 0 for JavaScript's -1
findIndex(list, db) ==
    LET hits == {i \in 1..Len(list) : list[i].root = db.root /\ list[i].cwd = db.cwd}
    IN  IF hits = {} THEN 0 ELSE CHOOSE i \in hits : \A j \in hits : i <= j

\* detach(db): false, or the array this.dbs.splice(index, 1) returns
detach(db) ==
    /\ Begin
    /\ gen' = NoGen /\ st' = NoStream /\ out' = << >> /\ calls' = << >>
    /\ LET index == findIndex(dbs, db)
       IN  IF index = 0
           THEN /\ last' = [op |-> "detach", uri |-> << >>, arg |-> db,
                            ret |-> [kind |-> "false", items |-> << >>], err |-> "none"]
                /\ UNCHANGED dbs
           ELSE /\ dbs' = SubSeq(dbs, 1, index - 1) \o SubSeq(dbs, index + 1, Len(dbs))
                /\ last' = [op |-> "detach", uri |-> << >>, arg |-> db,
                            ret |-> [kind |-> "array", items |-> <<dbs[index]>>],
                            err |-> "none"]
    /\ UNCHANGED <<Backend, AuthData, root, cwd, now, connected, data, meta, hist>>

-----------------------------------------------------------------------------
(* extract: a new Store over the keys below a URI.  A URI is its sequence of *)
(* segments, so "./a/" is <<".", "a", "">> and a key starts with p + "/"     *)
(* when p is a proper prefix of its segments.                                *)

\* String(uri).replace(/\/+$/, ''): the URI without its trailing slashes
RECURSIVE StripSlashes(_)
StripSlashes(uri) ==
    IF uri # << >> /\ uri[Len(uri)] = ""
    THEN StripSlashes(SubSeq(uri, 1, Len(uri) - 1))
    ELSE uri

\* key.startsWith(p + "/")
StartsWithDir(key, p) == IsPrefix(p, key) /\ Len(key) > Len(p)

\* Array.from(map.entries()).filter(([key]) => key.startsWith(prefix))
\*      .map(([key, value]) => [key.replace(prefix, ""), value]), from entry i on
RECURSIVE ExtractEntries(_, _, _)
ExtractEntries(m, p, i) ==
    IF i > Len(m) THEN << >>
    ELSE (IF StartsWithDir(m[i].k, p)
          THEN << [k |-> SubSeq(m[i].k, Len(p) + 1, Len(m[i].k)), v |-> m[i].v] >>
          ELSE << >>)
         \o ExtractEntries(m, p, i + 1)

ExtractShares == FALSE

\* the maps handed to the new Store are new Map objects, not the source's
ExtractCopies == TRUE

\* the URIs handed to extract: "./a", "./a/", "./c" and "missing.txt"
ExtractUris == {A, A \o <<"">>, C, Missing}

\* extract(uri): new Class({ root: root + uri, data, meta }) of this.constructor
extract(uri) ==
    /\ Begin
    /\ gen' = NoGen /\ st' = NoStream /\ out' = << >> /\ calls' = << >>
    /\ LET prefix == StripSlashes(uri)
           base == IF root = RootUri THEN << >> ELSE root
       IN  last' = [op |-> "extract", uri |-> uri, arg |-> Undefined,
                    ret |-> [kind |-> "DB",
                             root |-> base \o uri,
                             data |-> ExtractEntries(data, prefix, 1),
                             meta |-> ExtractEntries(meta, prefix, 1),
                             dbs |-> << >>,
                             changed |-> FALSE],
                    err |-> "none"]
    /\ UNCHANGED <<Backend, AuthData, Config, now, connected, data, meta, hist>>

\* the caller changes the maps of the Store extract returned: extracted.data.set(k, v)
\* and extracted.meta.delete(k)
extractedSet(k, v) ==
    /\ Idle
    /\ last.op = "extract" /\ ~last.ret.changed
    /\ last' = [last EXCEPT !.ret.data = MapSet(@, k, v),
                            !.ret.meta = SelectSeq(@, LAMBDA e : e.k # k),
                            !.ret.changed = TRUE]
    /\ data' = IF ExtractCopies THEN data ELSE MapSet(data, k, v)
    /\ meta' = IF ExtractCopies THEN meta ELSE SelectSeq(meta, LAMBDA e : e.k # k)
    /\ UNCHANGED <<Backend, AuthData, Config, now, connected, gen, st, out, calls, pre,
                   hist, ops>>

-----------------------------------------------------------------------------
(* moveDocument *)

\* await this.ensureAccess(to, "w"); await this.ensureAccess(from, "r"): the checks
\* made, up to and including the first one that rejects
MoveAccess(from, to) ==
    IF ~ensureAccess(to, "w")
    THEN << <<"ensureAccess", to, "w">> >>
    ELSE << <<"ensureAccess", to, "w">>, <<"ensureAccess", from, "r">> >>

MoveAllowedAlways(from, to) == TRUE

\* whether both access checks of moveDocument are granted
MoveAllowed(from, to) == ensureAccess(to, "w") /\ ensureAccess(from, "r")

\* async moveDocument(from, to): get(from), then saveDocument(to, data)
moveDocument(from, to) ==
    /\ Begin
    /\ gen' = NoGen /\ st' = NoStream /\ out' = << >>
    /\ IF ~MoveAllowed(from, to)
       THEN /\ calls' = MoveAccess(from, to)
            /\ last' = [op |-> "moveDocument", uri |-> from, arg |-> to, ret |-> Undefined,
                        err |-> "AccessDenied"]
            /\ UNCHANGED <<data, fsStat, fsDoc>>
       ELSE LET load == NeedsLoad(data, from)
                cache == IF load THEN MapSet(data, from, loadDocument(from)) ELSE data
                value == MapGet(cache, from)
            IN  /\ calls' = MoveAccess(from, to)
                              \o << <<"ensureAccess", from, "r">> >>
                              \o (IF load THEN << <<"loadDocument", from>> >> ELSE << >>)
                              \o << <<"saveDocument", to, value>> >>
                /\ data' = cache
                /\ fsDoc' = Update(fsDoc, to, value)
                /\ fsStat' = Update(fsStat, to,
                                IF to \in DOMAIN fsStat
                                THEN [fsStat[to] EXCEPT !.mtimeMs = now]
                                ELSE FileStat(now, 0))
                /\ last' = [op |-> "moveDocument", uri |-> from, arg |-> to, ret |-> "<true>",
                            err |-> "none"]
    /\ UNCHANGED <<tree, denied, AuthData, Config, now, connected, meta, hist>>

-----------------------------------------------------------------------------
(* push *)

\* for (const [key] of this.data) await this.ensureAccess(key, "w"): the checks made,
\* up to and including the first one that rejects
RECURSIVE PushChecks(_, _)
PushChecks(i, log) ==
    IF i > Len(data) THEN log
    ELSE IF ~ensureAccess(data[i].k, "w")
         THEN Append(log, <<"ensureAccess", data[i].k, "w">>)
         ELSE PushChecks(i + 1, Append(log, <<"ensureAccess", data[i].k, "w">>))

\* the access checks push makes before its loop
PushAccess(uri) ==
    IF uri # << >>
    THEN << <<"ensureAccess", uri, "w">> >>
    ELSE PushChecks(1, << >>)

PushAllowedAlways(uri) == TRUE

\* whether every access check push makes is granted
PushAllowed(uri) ==
    LET log == PushAccess(uri)
    IN  \A i \in 1..Len(log) : ensureAccess(log[i][2], "w")

IsNewerOrSame(m, s) == m >= s

\* push: meta.mtimeMs > stat.mtimeMs
IsNewer(m, s) == m > s

\* for (const [key, value] of this.data) { ... } of push, from entry i on
RECURSIVE PushLoop(_, _)
PushLoop(i, acc) ==
    IF i > Len(data) THEN acc
    ELSE
        LET key == data[i].k
            value == data[i].v
            m == IF MapHas(meta, key) THEN MapGet(meta, key).mtimeMs ELSE 0
            s == IF key \in DOMAIN acc.fsStat THEN acc.fsStat[key] ELSE DefaultStat
            seen == Append(acc.log, <<"statDocument", key>>)
        IN  IF IsNewer(m, s.mtimeMs)
            THEN PushLoop(i + 1,
                    [changed |-> Append(acc.changed, key),
                     log     |-> Append(seen, <<"saveDocument", key, value>>),
                     fsStat  |-> Update(acc.fsStat, key,
                                    IF key \in DOMAIN acc.fsStat
                                    THEN [acc.fsStat[key] EXCEPT !.mtimeMs = now]
                                    ELSE FileStat(now, 0)),
                     fsDoc   |-> Update(acc.fsDoc, key, value)])
            ELSE PushLoop(i + 1, [acc EXCEPT !.log = seen])

\* async push(uri = undefined); << >> stands for the omitted argument
push(uri) ==
    /\ Begin
    /\ gen' = NoGen /\ st' = NoStream /\ out' = << >>
    /\ IF ~PushAllowed(uri)
       THEN /\ calls' = PushAccess(uri)
            /\ last' = [op |-> "push", uri |-> uri, arg |-> Undefined, ret |-> Undefined, err |-> "AccessDenied"]
            /\ UNCHANGED <<fsStat, fsDoc>>
       ELSE LET r == PushLoop(1, [changed |-> << >>, log |-> PushAccess(uri),
                                  fsStat |-> fsStat, fsDoc |-> fsDoc])
            IN  /\ calls' = r.log
                /\ fsStat' = r.fsStat
                /\ fsDoc' = r.fsDoc
                /\ last' = [op |-> "push", uri |-> uri, arg |-> Undefined, ret |-> r.changed, err |-> "none"]
    /\ UNCHANGED <<tree, denied, AuthData, Config, now, connected, data, meta, hist>>

-----------------------------------------------------------------------------
(* DocumentEntry and the entries findStream keeps *)

DocumentEntryWithoutStat(name, stt, depth, path, parent) ==
    [name      |-> IF name = << >> /\ path # << >> THEN <<path[Len(path)]>> ELSE name,
     stat      |-> DefaultStat,
     depth     |-> depth,
     path      |-> path,
     parent    |-> parent,
     fulfilled |-> FALSE]

\* new DocumentEntry({ name, stat, depth, path }): parent and fulfilled take their
\* defaults; an empty name is derived from the last segment of the path
DocumentEntry(name, stt, depth, path, parent) ==
    [name      |-> IF name = << >> /\ path # << >> THEN <<path[Len(path)]>> ELSE name,
     stat      |-> stt,
     depth     |-> depth,
     path      |-> path,
     parent    |-> parent,
     fulfilled |-> FALSE]

\* the parent readDir hands to the DocumentEntry constructor: none, so the default ""
EntryParent(uri) == << >>

FilterNothing(f, path) == TRUE

\* the caller's filter, by name
Filters == {"all", "noA", "noX"}
Filter(f, path) ==
    CASE f = "all" -> TRUE
      [] f = "noA" -> path # A
      [] f = "noX" -> path = << >> \/ path[Len(path)] # "x.txt"

\* String.prototype.localeCompare on the segments that occur, as a rank
SegRank(seg) ==
    CASE seg = "." -> 0
      [] seg = "?loaded" -> 1
      [] seg = "a" -> 2
      [] seg = "b.txt" -> 3
      [] seg = "c" -> 4
      [] seg = "d" -> 5
      [] seg = "missing.txt" -> 6
      [] seg = "w.txt" -> 7
      [] seg = "x.txt" -> 8
      [] seg = "y.txt" -> 9
      [] seg = "z.txt" -> 10

\* a.localeCompare(b) for names given as segment sequences: negative, 0 or positive
RECURSIVE localeCompare(_, _)
localeCompare(a, b) ==
    IF a = << >> /\ b = << >> THEN 0
    ELSE IF a = << >> THEN -1
    ELSE IF b = << >> THEN 1
    ELSE IF SegRank(Head(a)) # SegRank(Head(b)) THEN SegRank(Head(a)) - SegRank(Head(b))
    ELSE localeCompare(Tail(a), Tail(b))

sortFnNone(a, b, sort, order) == 0

\* sortFn(a, b) of findStream
sortFn(a, b, sort, order) ==
    CASE sort = "name" ->
            IF order = "asc" THEN localeCompare(a.name, b.name)
            ELSE localeCompare(b.name, a.name)
      [] sort = "mtime" ->
            IF order = "asc" THEN a.stat.mtimeMs - b.stat.mtimeMs
            ELSE b.stat.mtimeMs - a.stat.mtimeMs
      [] sort = "size" ->
            IF order = "asc" THEN a.stat.size - b.stat.size
            ELSE b.stat.size - a.stat.size
      [] OTHER -> 0

\* one step of a stable insertion sort: x goes after the last element not above it
InsertSorted(sorted, x, heap, sort, order) ==
    LET below == {i \in 1..Len(sorted) : sortFn(heap[sorted[i]], heap[x], sort, order) <= 0}
        p == IF below = {} THEN 0 ELSE CHOOSE i \in below : \A j \in below : j <= i
    IN  SubSeq(sorted, 1, p) \o <<x>> \o SubSeq(sorted, p + 1, Len(sorted))

\* files.sort(sortFn): Array.prototype.sort is stable
RECURSIVE SortFrom(_, _, _, _, _)
SortFrom(files, acc, heap, sort, order) ==
    IF files = << >> THEN acc
    ELSE SortFrom(Tail(files), InsertSorted(acc, Head(files), heap, sort, order),
                  heap, sort, order)

SortFiles(files, heap, sort, order) == SortFrom(files, << >>, heap, sort, order)

-----------------------------------------------------------------------------
(* findStream: getProgress and the body of its for-await loop.  files, dirs  *)
(* and top hold references to the DocumentEntry objects; an object is named  *)
(* by its path and its fields live in heap, so a write to dir.fulfilled is   *)
(* seen through every reference.                                             *)

\* while (dir?.parent && dirs.has(dir.parent)) { dir = dirs.get(dir.parent); ... }
RECURSIVE TopLevelDirName(_, _, _, _)
TopLevelDirName(heap, dirs, dir, name) ==
    IF dir.parent # << >> /\ MapHas(dirs, dir.parent)
    THEN LET up == heap[MapGet(dirs, dir.parent)]
         IN  TopLevelDirName(heap, dirs, up, up.name)
    ELSE name

\* the fraction without the test of dirs.size: 0 / 0 when no directory was seen
RatioUnguarded(n, d) == [num |-> n, den |-> d]

\* progress as the fraction num / den; `dirs.size ? ... : 0` is 0 / 1
Ratio(n, d) == IF d = 0 THEN [num |-> 0, den |-> 1] ELSE [num |-> n, den |-> d]

\* const recent = files[files.length - 1]
Recent(s) == s.heap[s.files[Len(s.files)]]

\* const last = files[files.length - 2] ?? null; HasPrev tells whether it is an entry
HasPrev(s) == Len(s.files) >= 2
Prev(s) == s.heap[s.files[Len(s.files) - 1]]

\* getProgress: if (recent.stat.isDirectory) dirs.set(recent.path, recent)
GpDirs(s) ==
    IF Recent(s).stat.isDirectory
    THEN [s EXCEPT !.dirs = MapSet(s.dirs, Recent(s).path, Recent(s).path)]
    ELSE s

GpNeverThrown(s) == FALSE

\* getProgress: throw new Error("Directory not found: " + recent.parent)
GpThrown(s) ==
    /\ ~Recent(s).stat.isDirectory
    /\ Recent(s).parent # << >>
    /\ ~MapHas(s.dirs, Recent(s).parent)

\* dir.fulfilled = true, and the same on the top entry of that name if there is one
Fulfil(heap, top, d) ==
    IF MapHas(top, heap[d].name)
    THEN [heap EXCEPT ![d].fulfilled = TRUE, ![MapGet(top, heap[d].name)].fulfilled = TRUE]
    ELSE [heap EXCEPT ![d].fulfilled = TRUE]

\* getProgress: the previous entry's parent differs from the recent one's
GpFulfil(s) ==
    IF /\ HasPrev(s)
       /\ Prev(s).parent # << >>
       /\ Prev(s).parent # Recent(s).parent
       /\ MapHas(s.dirs, Prev(s).parent)
    THEN [s EXCEPT !.heap = Fulfil(s.heap, s.top, MapGet(s.dirs, Prev(s).parent))]
    ELSE s

\* the directories counted as lying under the top-level directory `name`
SubDirs(s, name) ==
    {d \in {MapGet(s.dirs, k) : k \in MapKeys(s.dirs)} :
        /\ s.heap[d].name # name
        /\ \/ s.heap[d].parent = name
           \/ IsPrefix(name, s.heap[d].name) /\ Len(s.heap[d].name) > Len(name)}

\* getProgress, recent.depth > 0: the top-level directory is fulfilled once all
\* directories under it are
GpTopFulfil(s, name) ==
    IF /\ MapHas(s.top, name)
       /\ SubDirs(s, name) # {}
       /\ \A d \in SubDirs(s, name) : s.heap[d].fulfilled
    THEN [s EXCEPT !.heap[MapGet(s.top, name)].fulfilled = TRUE]
    ELSE s

\* getProgress: if (recent.depth > 0) { ... } else if (recent.stat.isDirectory) top.set(...)
GpTop(s) ==
    IF Recent(s).depth > 0
    THEN GpTopFulfil(s, TopLevelDirName(s.heap, s.dirs, Recent(s), Recent(s).name))
    ELSE IF Recent(s).stat.isDirectory
    THEN [s EXCEPT !.top = MapSet(s.top, Recent(s).name, Recent(s).path)]
    ELSE s

\* getProgress: fulfilled directories over all directories; this value is the result
GpRatio(s) ==
    Ratio(Cardinality({k \in MapKeys(s.dirs) : s.heap[MapGet(s.dirs, k)].fulfilled}),
          Len(s.dirs))

\* getProgress(files), files ending with the entry just pushed
getProgress(s) == GpTop(GpFulfil(GpDirs(s)))

ErrorDropped(errors, file) == errors

\* if (file.stat.error) errors.set(file.path, file.stat.error)
RecordError(errors, file) ==
    IF file.stat.error # "null" THEN MapSet(errors, file.path, file.stat.error) ELSE errors

\* findStream's loop body up to getProgress: files.push(file), errors, dirs, totalSize
StreamPush(s, file) ==
    [s EXCEPT
       !.files = Append(s.files, file.path),
       !.heap = Update(s.heap, file.path, file),
       !.errors = RecordError(s.errors, file),
       !.dirs = IF file.stat.isDirectory
                THEN MapSet(s.dirs, file.path, file.path)
                ELSE s.dirs,
       !.totalSize =
          [dirs  |-> s.totalSize.dirs
                     + (IF file.stat.isDirectory THEN file.stat.size ELSE 0),
           files |-> s.totalSize.files
                     + (IF file.stat.isFile THEN file.stat.size ELSE 0)]]

\* new StreamEntry({ file, files: files.sort(sortFn), dirs, top, errors, progress,
\* totalSize }): the maps are copied, the entries and totalSize are shared
StreamEntry(s, file, progress) ==
    [t |-> "stream", file |-> file.path, files |-> s.files, dirs |-> s.dirs,
     top |-> s.top, errors |-> s.errors, progress |-> progress]

\* this.totalSize = totalSize: the totalSize of every StreamEntry emitted is the one
\* object findStream adds to
EmittedTotalSize(s) == s.totalSize

\* files.sort(sortFn) in place
StreamSort(s, sort, order) ==
    [s EXCEPT !.files = SortFiles(s.files, s.heap, sort, order)]

-----------------------------------------------------------------------------
(* readDir: an async generator.  A call pushes a frame; the frames of the    *)
(* `yield*` delegations form a stack.  Each action below runs the top frame  *)
(* from one await or yield to the next.                                      *)

Frame(uri, depth) ==
    [uri |-> uri, depth |-> depth, pc |-> "enter", entries |-> << >>, i |-> 1,
     later |-> << >>]

Running ==
    /\ gen.status = "running"
    /\ gen.phase = "traverse"
    /\ gen.stack # << >>
    /\ gen.pending = << >>
Top == gen.stack[Len(gen.stack)]
SetTop(f) == [gen.stack EXCEPT ![Len(gen.stack)] = f]

\* `yield element`: readDir's consumer, and find's through yield*, receive the
\* DocumentEntry and the generator is suspended; under findStream the entry is handed
\* to the body of its for-await loop
Yield(e, stack) ==
    /\ gen' = [gen EXCEPT !.stack = stack,
                          !.suspended = gen.kind # "findStream",
                          !.pending = IF gen.kind = "findStream" THEN <<e>> ELSE << >>]
    /\ out' = IF gen.kind = "findStream" THEN out ELSE Append(out, [t |-> "entry", e |-> e])

Failed(err) == [last EXCEPT !.err = err]
CutShort == [hist EXCEPT !.cut = hist.cut \/ gen.kind = "find"]

\* readDir: `await this.ensureAccess(uri, "r")` rejects, and the generator throws
RdReject(f) ==
    /\ calls' = Append(calls, <<"ensureAccess", f.uri, "r">>)
    /\ gen' = [gen EXCEPT !.status = "failed", !.suspended = FALSE, !.stack = << >>]
    /\ last' = Failed("AccessDenied")
    /\ hist' = CutShort
    /\ UNCHANGED <<data, meta, out>>

\* async *readDir(uri, options): from the call to the listing, or the single file
RdEnter ==
    /\ Running
    /\ Top.pc = "enter"
    /\ LET f == Top
           access == <<"ensureAccess", f.uri, "r">>
           stt == statDocument(f.uri)
       IN  IF ~ensureAccess(f.uri, "r")
           THEN RdReject(f)
           ELSE IF ~Filter(gen.filter, f.uri)
           THEN /\ calls' = Append(calls, access)
                /\ gen' = [gen EXCEPT !.suspended = FALSE,
                                      !.stack = SetTop([f EXCEPT !.pc = "return"])]
                /\ UNCHANGED <<data, meta, out, last, hist>>
           ELSE IF stt.isDirectory
           THEN /\ calls' = calls \o <<access, <<"statDocument", f.uri>>,
                                      <<"listDir", f.uri>> >>
                /\ gen' = [gen EXCEPT !.suspended = FALSE,
                                      !.stack = SetTop([f EXCEPT !.pc = "classify",
                                                                 !.entries = listDir(f.uri),
                                                                 !.i = 1])]
                /\ UNCHANGED <<data, meta, out, last, hist>>
           ELSE /\ calls' = calls \o <<access, <<"statDocument", f.uri>> >>
                /\ data' = MapSet(data, f.uri, FalseSentinel)
                /\ meta' = MapSet(meta, f.uri, stt)
                /\ Yield(DocumentEntry(relative(root, f.uri), stt, f.depth, f.uri,
                                       EntryParent(f.uri)),
                         SetTop([f EXCEPT !.pc = "return"]))
                /\ UNCHANGED <<last, hist>>
    /\ UNCHANGED <<Backend, AuthData, Config, now, connected, st, pre, ops>>

DeferredNever(entry) == FALSE

\* readDir's first loop: a directory is yielded at once, anything else is kept back
Deferred(entry) == ~entry.stat.isDirectory

\* the first loop: cache every child the filter accepts, yield the directories,
\* keep the files for later
RdClassify ==
    /\ Running
    /\ Top.pc = "classify"
    /\ LET f == Top
       IN  IF f.i > Len(f.entries)
           THEN /\ gen' = [gen EXCEPT !.suspended = FALSE,
                                      !.stack = SetTop([f EXCEPT !.pc = "later", !.i = 1])]
                /\ UNCHANGED <<data, meta, out>>
           ELSE LET entry == f.entries[f.i]
                    path == resolve(f.uri, entry.name)
                    element == DocumentEntry(entry.name, entry.stat, f.depth, path,
                                             EntryParent(f.uri))
                    next == [f EXCEPT !.i = f.i + 1]
                IN  IF ~Filter(gen.filter, path)
                    THEN /\ gen' = [gen EXCEPT !.suspended = FALSE, !.stack = SetTop(next)]
                         /\ UNCHANGED <<data, meta, out>>
                    ELSE /\ data' = MapSet(data, path, FalseSentinel)
                         /\ meta' = MapSet(meta, path, entry.stat)
                         /\ IF ~Deferred(entry)
                            THEN Yield(element, SetTop(next))
                            ELSE /\ gen' = [gen EXCEPT
                                              !.suspended = FALSE,
                                              !.stack = SetTop([next EXCEPT
                                                  !.later = Append(f.later, element)])]
                                 /\ UNCHANGED out
    /\ UNCHANGED <<Backend, AuthData, Config, now, connected, st, calls, last, pre, hist, ops>>

RdLaterSkipped ==
    /\ Running
    /\ Top.pc = "later"
    /\ gen' = [gen EXCEPT !.suspended = FALSE,
                          !.stack = SetTop([Top EXCEPT !.pc = "recurse", !.i = 1])]
    /\ UNCHANGED <<Backend, AuthData, Config, now, connected, data, meta, st, out, calls, last,
                   pre, hist, ops>>

\* the second loop: yield the files kept back
RdLater ==
    /\ Running
    /\ Top.pc = "later"
    /\ LET f == Top
       IN  IF f.i > Len(f.later)
           THEN /\ gen' = [gen EXCEPT !.suspended = FALSE,
                                      !.stack = SetTop([f EXCEPT !.pc = "recurse", !.i = 1])]
                /\ UNCHANGED out
           ELSE Yield(f.later[f.i], SetTop([f EXCEPT !.i = f.i + 1]))
    /\ UNCHANGED <<Backend, AuthData, Config, now, connected, data, meta, st, calls, last, pre,
                   hist, ops>>

SkipNoLink(skipSymbolicLink, stt) == FALSE

\* if (skipSymbolicLink && entry.stat.isSymbolicLink) continue
SkipLink(skipSymbolicLink, stt) == skipSymbolicLink /\ stt.isSymbolicLink

\* the third loop: yield* this.readDir(path, { depth: depth + 1, ... }) per directory
RdRecurse ==
    /\ Running
    /\ Top.pc = "recurse"
    /\ LET f == Top
       IN  IF f.i > Len(f.entries)
           THEN gen' = [gen EXCEPT !.suspended = FALSE,
                                   !.stack = SetTop([f EXCEPT !.pc = "return"])]
           ELSE LET entry == f.entries[f.i]
                    next == SetTop([f EXCEPT !.i = f.i + 1])
                IN  IF SkipLink(gen.skipSymbolicLink, entry.stat)
                    THEN gen' = [gen EXCEPT !.suspended = FALSE, !.stack = next]
                    ELSE IF entry.stat.isDirectory
                    THEN gen' = [gen EXCEPT
                                   !.suspended = FALSE,
                                   !.stack = Append(next, Frame(resolve(f.uri, entry.name),
                                                                f.depth + 1))]
                    ELSE gen' = [gen EXCEPT !.suspended = FALSE, !.stack = next]
    /\ UNCHANGED <<Backend, AuthData, Config, now, connected, data, meta, st, out, calls, last,
                   pre, hist, ops>>

\* a readDir call returns: its caller goes on, or the generator is exhausted
RdReturn ==
    /\ Running
    /\ Top.pc = "return"
    /\ gen' = IF Len(gen.stack) > 1
              THEN [gen EXCEPT !.suspended = FALSE,
                               !.stack = SubSeq(gen.stack, 1, Len(gen.stack) - 1)]
              ELSE IF gen.kind = "find"
              THEN [gen EXCEPT !.suspended = FALSE, !.stack = << >>, !.phase = "answer"]
              ELSE [gen EXCEPT !.suspended = FALSE, !.stack = << >>, !.status = "done"]
    /\ UNCHANGED <<Backend, AuthData, Config, now, connected, data, meta, st, out, calls, last,
                   pre, hist, ops>>

\* the consumer stops pulling from a suspended generator
Abandon ==
    /\ gen.status = "running"
    /\ gen.suspended
    /\ gen' = [gen EXCEPT !.status = "abandoned", !.stack = << >>]
    /\ hist' = CutShort
    /\ UNCHANGED <<Backend, AuthData, Config, now, connected, data, meta, st, out, calls, last,
                   pre, ops>>

-----------------------------------------------------------------------------
(* The calls that create a generator *)

\* URIs a traversal is started at
StartUris == {RootUri, A, B}

\* the options readDir is called with
ReadDirOptions ==
    { [filter |-> "all", skipSymbolicLink |-> FALSE],
      [filter |-> "noA", skipSymbolicLink |-> FALSE],
      [filter |-> "noX", skipSymbolicLink |-> TRUE] }

\* the options findStream is called with
StreamOptions ==
    { [filter |-> "all", limit |-> -1, sort |-> "name", order |-> "asc",
       skipSymbolicLink |-> FALSE],
      [filter |-> "all", limit |-> -1, sort |-> "name", order |-> "desc",
       skipSymbolicLink |-> FALSE],
      [filter |-> "all", limit |-> 2, sort |-> "size", order |-> "desc",
       skipSymbolicLink |-> FALSE],
      [filter |-> "noX", limit |-> -1, sort |-> "mtime", order |-> "asc",
       skipSymbolicLink |-> TRUE],
      [filter |-> "all", limit |-> -1, sort |-> "size", order |-> "asc",
       skipSymbolicLink |-> FALSE] }

\* the arguments find is called with: a literal URI, or a predicate
FindArgs ==
    { [uri |-> B, pred |-> "none"], [uri |-> Missing, pred |-> "none"],
      [uri |-> << >>, pred |-> "isTxt"], [uri |-> << >>, pred |-> "isLoaded"] }

\* readDir(uri, { depth, skipSymbolicLink, filter }) is called
readDir(uri, depth, filter, skipSymbolicLink) ==
    /\ Begin
    /\ gen' = [NoGen EXCEPT !.kind = "readDir", !.status = "running",
                            !.phase = "traverse", !.suspended = TRUE,
                            !.stack = <<Frame(uri, depth)>>, !.filter = filter,
                            !.skipSymbolicLink = skipSymbolicLink, !.arg = uri,
                            !.depth = depth]
    /\ st' = NoStream /\ out' = << >> /\ calls' = << >>
    /\ last' = [op |-> "readDir", uri |-> uri, arg |-> Undefined, ret |-> Undefined, err |-> "none"]
    /\ UNCHANGED <<Backend, AuthData, Config, now, connected, data, meta, hist>>

loadedWhenCached == data # EmptyMap

\* get loaded(): the marker is a key of meta
loaded == MapHas(meta, LoadedKey)

\* the predicates handed to find, by name, over (key, value)
Preds == {"isTxt", "isLoaded"}
Pred(p, key, value) ==
    CASE p = "isTxt" -> key # << >> /\ key[Len(key)] \in {"b.txt", "x.txt", "y.txt"}
      [] p = "isLoaded" -> value # FalseSentinel

\* find(uri, depth = 0) is called with a literal URI (pred = "none") or a predicate
find(uri, pred) ==
    /\ Begin
    /\ gen' = [NoGen EXCEPT !.kind = "find", !.status = "running", !.phase = "start",
                            !.suspended = TRUE, !.arg = uri, !.pred = pred]
    /\ st' = NoStream /\ out' = << >> /\ calls' = << >>
    /\ last' = [op |-> "find", uri |-> uri, arg |-> Undefined, ret |-> Undefined, err |-> "none"]
    /\ hist' = [hist EXCEPT !.finds = hist.finds + 1]
    /\ UNCHANGED <<Backend, AuthData, Config, now, connected, data, meta>>

\* find's body up to the delegation: requireConnected, then the one-shot traversal
findEnter ==
    /\ gen.status = "running" /\ gen.kind = "find" /\ gen.phase = "start"
    /\ connected' = TRUE
    /\ IF ~loaded
       THEN /\ gen' = [gen EXCEPT !.phase = "traverse", !.suspended = FALSE,
                                  !.traversed = TRUE,
                                  !.stack = <<Frame(root, gen.depth + 1)>>]
            /\ hist' = [hist EXCEPT !.traversals = hist.traversals + 1]
       ELSE /\ gen' = [gen EXCEPT !.phase = "answer", !.suspended = FALSE]
            /\ UNCHANGED hist
    /\ UNCHANGED <<Backend, AuthData, Config, now, data, meta, st, out, calls, last, pre, ops>>

\* for (const [key, value] of this.data) if (uri(key, value)) yield key
RECURSIVE Matching(_, _, _)
Matching(m, p, i) ==
    IF i > Len(m) THEN << >>
    ELSE (IF Pred(p, m[i].k, m[i].v) THEN << [t |-> "uri", uri |-> m[i].k] >> ELSE << >>)
         \o Matching(m, p, i + 1)

\* what find yields from the cache
Answer(uri, pred) ==
    IF pred # "none" THEN Matching(data, pred, 1)
    ELSE IF MapHas(data, uri) THEN << [t |-> "uri", uri |-> uri] >>
    ELSE << >>

MarkLoadedNever(m) == m

\* this.meta.set("?loaded", new DocumentStat())
MarkLoaded(m) == MapSet(m, LoadedKey, DefaultStat)

\* find's body after the delegation: the marker, then the answers from the cache
findAnswer ==
    /\ gen.status = "running" /\ gen.kind = "find" /\ gen.phase = "answer"
    /\ meta' = IF gen.traversed THEN MarkLoaded(meta) ELSE meta
    /\ out' = out \o Answer(gen.arg, gen.pred)
    /\ gen' = [gen EXCEPT !.status = "done", !.suspended = FALSE]
    /\ UNCHANGED <<Backend, AuthData, Config, now, connected, data, st, calls, last, pre,
                   hist, ops>>

\* findStream(uri, { filter, limit, sort, order, skipSymbolicLink }) is called
findStream(uri, filter, limit, sort, order, skipSymbolicLink) ==
    /\ Begin
    /\ gen' = [NoGen EXCEPT !.kind = "findStream", !.status = "running",
                            !.phase = "start", !.suspended = TRUE, !.arg = uri,
                            !.filter = filter, !.limit = limit, !.sort = sort,
                            !.order = order, !.skipSymbolicLink = skipSymbolicLink]
    /\ st' = NoStream /\ out' = << >> /\ calls' = << >>
    /\ last' = [op |-> "findStream", uri |-> uri, arg |-> Undefined, ret |-> Undefined, err |-> "none"]
    /\ UNCHANGED <<Backend, AuthData, Config, now, connected, data, meta, hist>>

\* findStream's body up to its loop: await this.ensureAccess(uri), then readDir(uri)
findStreamEnter ==
    /\ gen.status = "running" /\ gen.kind = "findStream" /\ gen.phase = "start"
    /\ calls' = Append(calls, <<"ensureAccess", gen.arg, "r">>)
    /\ IF ~ensureAccess(gen.arg, "r")
       THEN /\ gen' = [gen EXCEPT !.status = "failed", !.suspended = FALSE]
            /\ last' = Failed("AccessDenied")
       ELSE /\ gen' = [gen EXCEPT !.phase = "traverse", !.suspended = FALSE,
                                  !.stack = <<Frame(gen.arg, 0)>>]
            /\ UNCHANGED last
    /\ UNCHANGED <<Backend, AuthData, Config, now, connected, data, meta, st, out, pre,
                   hist, ops>>

LimitReachedLate(limit, n) == limit > 0 /\ n > limit

\* if (limit > 0 && files.length >= limit) break
LimitReached(limit, n) == limit > 0 /\ n >= limit

\* the body of findStream's for-await loop on the file readDir yielded: it throws,
\* or yields one StreamEntry and then breaks once the limit is reached
findStreamBody ==
    /\ gen.status = "running" /\ gen.kind = "findStream" /\ gen.pending # << >>
    /\ LET file == gen.pending[1]
           pushed == StreamPush(st, file)
       IN  IF GpThrown(pushed)
           THEN /\ st' = pushed
                /\ gen' = [gen EXCEPT !.status = "failed", !.pending = << >>,
                                      !.stack = << >>]
                /\ last' = Failed("DirectoryNotFound")
                /\ UNCHANGED out
           ELSE /\ st' = StreamSort(getProgress(pushed), gen.sort, gen.order)
                /\ out' = Append(out, StreamEntry(st', file, GpRatio(st')))
                /\ gen' = IF LimitReached(gen.limit, Len(st'.files))
                          THEN [gen EXCEPT !.status = "done", !.pending = << >>,
                                           !.stack = << >>]
                          ELSE [gen EXCEPT !.suspended = TRUE, !.pending = << >>]
                /\ UNCHANGED last
    /\ UNCHANGED <<Backend, AuthData, Config, now, connected, data, meta, calls, pre, hist,
                   ops>>

-----------------------------------------------------------------------------
(* The Store used by one caller, one operation at a time *)

ReadDirCall ==
    \E u \in StartUris, o \in ReadDirOptions : readDir(u, 0, o.filter, o.skipSymbolicLink)

FindCall ==
    \E a \in FindArgs : find(a.uri, a.pred)

FindStreamCall ==
    \E u \in StartUris, o \in StreamOptions :
        findStream(u, o.filter, o.limit, o.sort, o.order, o.skipSymbolicLink)

Next ==
    \/ ops < MaxOps /\ connect
    \/ ops < MaxOps /\ disconnect
    \/ \E u \in OpUris : ops < MaxOps /\ get(u)
    \/ \E u \in OpUris, v \in Values : ops < MaxOps /\ set(u, v)
    \/ \E u \in OpUris : ops < MaxOps /\ stat(u)
    \/ \E u \in OpUris \cup {<< >>} : ops < MaxOps /\ push(u)
    \/ ops < MaxOps /\ ReadDirCall
    \/ ops < MaxOps /\ FindCall
    \/ ops < MaxOps /\ FindStreamCall
    \/ Tick
    \/ findEnter
    \/ findAnswer
    \/ findStreamEnter
    \/ findStreamBody
    \/ RdEnter
    \/ RdClassify
    \/ RdLater
    \/ RdRecurse
    \/ RdReturn
    \/ Abandon

Spec == Init /\ [][Next]_vars

\* the cache operations alone
NextStore ==
    \/ ops < MaxStoreOps /\ connect
    \/ ops < MaxStoreOps /\ disconnect
    \/ \E u \in OpUris : ops < MaxStoreOps /\ get(u)
    \/ \E u \in OpUris, v \in Values : ops < MaxStoreOps /\ set(u, v)
    \/ \E u \in OpUris : ops < MaxStoreOps /\ stat(u)
    \/ \E u \in OpUris \cup {<< >>} : ops < MaxStoreOps /\ push(u)
    \/ \E f \in OpUris, t \in OpUris : ops < MaxStoreOps /\ moveDocument(f, t)
    \/ Tick

SpecStore == Init /\ [][NextStore]_vars

\* readDir alone, pulled by its consumer
NextReadDir ==
    \/ ops < MaxWalks /\ ReadDirCall
    \/ RdEnter
    \/ RdClassify
    \/ RdLater
    \/ RdRecurse
    \/ RdReturn
    \/ Abandon

SpecReadDir == Init /\ [][NextReadDir]_vars

\* find, with the get and set calls that fill the cache between two finds
NextFind ==
    \/ ops < MaxFindOps /\ FindCall
    \/ \E u \in OpUris : ops < MaxFindOps /\ get(u)
    \/ \E u \in OpUris, v \in Values : ops < MaxFindOps /\ set(u, v)
    \/ ops < MaxFindOps /\ connect
    \/ findEnter
    \/ findAnswer
    \/ RdEnter
    \/ RdClassify
    \/ RdLater
    \/ RdRecurse
    \/ RdReturn
    \/ Abandon

SpecFind == Init /\ [][NextFind]_vars

\* findStream alone, pulled by its consumer
NextStream ==
    \/ ops < MaxWalks /\ FindStreamCall
    \/ findStreamEnter
    \/ findStreamBody
    \/ RdEnter
    \/ RdClassify
    \/ RdLater
    \/ RdRecurse
    \/ RdReturn
    \/ Abandon

SpecStream == Init /\ [][NextStream]_vars

\* readDir pulled to exhaustion: the consumer keeps pulling, so the generator's next
\* step is always taken
RdStep == RdEnter \/ RdClassify \/ RdLater \/ RdRecurse \/ RdReturn

NextPulled ==
    \/ ops < MaxWalks /\ ReadDirCall
    \/ RdEnter
    \/ RdClassify
    \/ RdLater
    \/ RdRecurse
    \/ RdReturn

SpecPulled == Init /\ [][NextPulled]_vars /\ WF_vars(RdStep)

\* the entries a readDir may hand to findStream's loop, with the parent each declares
SuppliedEntries ==
    { DocumentEntry(<<"a">>, DirStat(1), 0, A, << >>),
      DocumentEntry(<<"d">>, DirStat(1), 1, AD, A),
      DocumentEntry(<<"b.txt">>, FileStat(1, 3), 0, B, << >>),
      DocumentEntry(<<"x.txt">>, FileStat(1, 2), 1, AX, A),
      DocumentEntry(<<"y.txt">>, FileStat(1, 1), 2, ADY, AD),
      DocumentEntry(<<"z.txt">>, FileStat(1, 4), 1, CZ, C) }

\* for await (const file of this.readDir(...)): the traversal hands over one entry
readDirYields(e) ==
    /\ gen.status = "running" /\ gen.kind = "findStream" /\ gen.phase = "traverse"
    /\ gen.pending = << >>
    /\ Len(st.files) < MaxSupplied
    /\ \A i \in 1..Len(st.files) : st.files[i] # e.path
    /\ gen' = [gen EXCEPT !.suspended = FALSE, !.pending = <<e>>]
    /\ UNCHANGED <<Backend, AuthData, Config, now, connected, data, meta, st, out, calls, last,
                   pre, hist, ops>>

\* the traversal has no more entries: the for-await loop and findStream end
readDirEnds ==
    /\ gen.status = "running" /\ gen.kind = "findStream" /\ gen.phase = "traverse"
    /\ gen.pending = << >>
    /\ gen' = [gen EXCEPT !.suspended = FALSE, !.stack = << >>, !.status = "done"]
    /\ UNCHANGED <<Backend, AuthData, Config, now, connected, data, meta, st, out, calls, last,
                   pre, hist, ops>>

\* findStream's loop and getProgress over the entries of any traversal
NextProgress ==
    \/ ops < MaxWalks /\ FindStreamCall
    \/ findStreamEnter
    \/ \E e \in SuppliedEntries : readDirYields(e)
    \/ readDirEnds
    \/ findStreamBody

InitProgress == Init /\ tree = 1 /\ denied = {}

SpecProgress == InitProgress /\ [][NextProgress]_vars

\* set, the traversals, and the get and push that follow them
NextUnsaved ==
    \/ \E u \in {B, AX}, v \in Values : ops < MaxUnsavedOps /\ set(u, v)
    \/ \E u \in {B, AX} : ops < MaxUnsavedOps /\ get(u)
    \/ ops < MaxUnsavedOps /\ push(<< >>)
    \/ ops < MaxUnsavedOps /\ ReadDirCall
    \/ ops < MaxUnsavedOps /\ FindCall
    \/ ops < MaxUnsavedOps /\ FindStreamCall
    \/ Tick
    \/ findEnter
    \/ findAnswer
    \/ findStreamEnter
    \/ findStreamBody
    \/ RdEnter
    \/ RdClassify
    \/ RdLater
    \/ RdRecurse
    \/ RdReturn
    \/ Abandon

InitUnsaved == Init /\ tree = 2 /\ denied = {}

SpecUnsaved == InitUnsaved /\ [][NextUnsaved]_vars

\* get suspended at its load, with the calls that run meanwhile
NextRace ==
    \/ \E u \in {B, AX} : ops < MaxRaceOps /\ getAwait(u)
    \/ getResume
    \/ \E u \in {B, AX} : ops < MaxRaceOps /\ get(u)
    \/ \E u \in {B, AX}, v \in Values : ops < MaxRaceOps /\ set(u, v)
    \/ ops < MaxRaceOps /\ push(<< >>)
    \/ Tick

InitRace == Init /\ tree = 2 /\ denied = {}

SpecRace == InitRace /\ [][NextRace]_vars

\* the branch operations alone
NextBranch ==
    \/ \E d \in DbInstances \cup {NotADb} : ops < MaxBranchOps /\ attach(d)
    \/ \E d \in DbInstances : ops < MaxBranchOps /\ detach(d)
    \/ \E u \in ExtractUris : ops < MaxBranchOps /\ extract(u)
    \/ \E k \in {<<"x.txt">>, AX} : extractedSet(k, "changed")
    \/ \E u \in OpUris, v \in Values : ops < MaxBranchOps /\ set(u, v)

SpecBranch == Init /\ [][NextBranch]_vars

\* the connection operations alone
NextConnect ==
    \/ ops < MaxConnectOps /\ connect
    \/ ops < MaxConnectOps /\ disconnect
    \/ \E r \in ConnectResults : ops < MaxConnectOps /\ requireConnected(r)

SpecConnect == Init /\ [][NextConnect]_vars

-----------------------------------------------------------------------------
(* Properties of the traversal *)

\* the directory an entry was listed in
DirOf(path) == SubSeq(path, 1, Len(path) - 1)
\* the paths readDir has yielded so far, in order
Paths == [i \in 1..Len(out) |-> out[i].e.path]
\* position of a name in the back-end's listing of a directory (0: not listed)
ListIndex(dir, name) ==
    LET names == IF dir \in DOMAIN Trees[tree].list THEN Trees[tree].list[dir] ELSE << >>
    IN  IF \E i \in 1..Len(names) : names[i] = name
        THEN CHOOSE i \in 1..Len(names) : names[i] = name
        ELSE 0
\* the immediate children the back-end lists for a directory
ChildrenOf(dir) ==
    IF dir \in DOMAIN Trees[tree].list
    THEN {resolve(dir, <<Trees[tree].list[dir][i]>>) : i \in 1..Len(Trees[tree].list[dir])}
    ELSE {}

\* C1: with a filter that accepts everything, readDir yields, within one directory
\* listing, the directories before the files, each group in the back-end's listing
\* order, and every immediate child of a directory before any entry from deeper
\* below it; over { a/{x.txt, y.txt}, b.txt } from the root the order is
\* a, b.txt, x.txt, y.txt
C1_ReadDirOrder ==
    (gen.kind = "readDir" /\ gen.filter = "all") =>
        /\ \A i, j \in 1..Len(out) :
              (i < j /\ DirOf(Paths[i]) = DirOf(Paths[j])) =>
                  /\ out[i].e.stat.isDirectory \/ ~out[j].e.stat.isDirectory
                  /\ (out[i].e.stat.isDirectory = out[j].e.stat.isDirectory) =>
                        ListIndex(DirOf(Paths[i]), Paths[i][Len(Paths[i])])
                            < ListIndex(DirOf(Paths[j]), Paths[j][Len(Paths[j])])
        /\ \A j \in 1..Len(out) : \A d \in DOMAIN Trees[tree].list :
              (IsPrefix(gen.arg, d) /\ IsPrefix(d, DirOf(Paths[j])) /\ d # DirOf(Paths[j])) =>
                  \A c \in ChildrenOf(d) : \E i \in 1..(j - 1) : Paths[i] = c
        /\ (gen.status = "done" /\ tree = 2 /\ gen.arg = RootUri) =>
              Paths = <<A, B, AX, AY>>

\* a readDir over { a/{x.txt, y.txt}, b.txt } from the root, consumed to its end
C1_Witness ==
    /\ gen.kind = "readDir" /\ gen.filter = "all" /\ gen.status = "done"
    /\ tree = 2 /\ gen.arg = RootUri /\ Len(out) = 4

-----------------------------------------------------------------------------
(* Properties of findStream *)

\* a findStream from the root over the two-directory, four-file tree has ended
\* after both directories and their four files were emitted
TwoDirsConsumed ==
    /\ gen.kind = "findStream" /\ gen.status = "done"
    /\ tree = 3 /\ gen.arg = RootUri /\ gen.filter = "all" /\ gen.limit < 0
    /\ Len(out) = 6

\* C2: findStream over two directories holding four files, consumed until the
\* generator ends, reports progress 1 on the last StreamEntry it emitted
C2_FinalProgressOne ==
    TwoDirsConsumed =>
        LET p == out[Len(out)].progress IN p.num = p.den /\ p.den > 0

\* the directories findStream has seen, and those of them marked fulfilled
SeenDirs == {st.dirs[i].v : i \in 1..Len(st.dirs)}
FulfilledDirs == {d \in SeenDirs : st.heap[d].fulfilled}

C32_EmittedEntryFrozen ==
    [][ (gen.kind = "findStream" /\ ops' = ops /\ out # << >>) =>
          /\ SubSeq(out', 1, Len(out)) = out
          /\ EmittedTotalSize(st') = EmittedTotalSize(st)
      ]_<<out, st>>

\* the paths the back-end holds below a URI
Descendants(uri) == {p \in DOMAIN Trees[tree].stat : IsPrefix(uri, p) /\ p # uri}

Orphan ==
    LET file == gen.pending[1]
    IN  /\ ~file.stat.isDirectory
        /\ file.parent # << >>
        /\ file.parent \notin MapKeys(st.dirs)

DirectoryNotFoundRaised ==
    (gen.kind = "findStream" /\ gen.status = "running" /\ gen.pending # << >>
     /\ gen'.pending = << >>) =>
        /\ (gen'.status = "failed" /\ last'.err = "DirectoryNotFound") <=> Orphan
        /\ Orphan => out' = out
        /\ ~Orphan => /\ Len(out') = Len(out) + 1
                      /\ out'[Len(out')].file = gen.pending[1].path

NothingAfterFailure ==
    (gen.kind = "findStream" /\ gen.status = "failed" /\ ops' = ops) =>
        out' = out /\ gen'.status = "failed"

\* C34: findStream's loop body raises 'Directory not found' exactly when the entry it
\* has just received is not a directory and declares a non-empty parent that is not a
\* key of dirs; it then emits no StreamEntry for that entry, and none afterwards
C34_DirectoryNotFound ==
    [][DirectoryNotFoundRaised /\ NothingAfterFailure]_<<gen, out>>

\* findStream has failed on z.txt, whose parent c was never seen, after emitting the
\* StreamEntries of a and a/x.txt
C34_Witness ==
    /\ gen.kind = "findStream" /\ gen.status = "failed" /\ last.err = "DirectoryNotFound"
    /\ st.files = <<A, AX, CZ>> /\ Len(out) = 2

\* the linked directories below a URI, as the back-end's stats mark them
Links(uri) ==
    {p \in Descendants(uri) : statDocument(p).isDirectory /\ statDocument(p).isSymbolicLink}

Yielded == {Paths[i] : i \in 1..Len(out)}

\* C35: with skipSymbolicLink a readDir yields nothing from below a linked directory
\* and leaves the cache of those paths as it was when readDir was called, while the link itself, listed in the starting directory, is yielded and
\* cached; without it, every child of a yielded directory that the filter accepts is
\* yielded one level deeper, and nothing the filter rejects is yielded
C35_LinksNotFollowed ==
    gen.kind = "readDir" =>
        /\ gen.skipSymbolicLink =>
              \A l \in Links(gen.arg) :
                 /\ \A p \in Descendants(l) :
                       /\ p \notin Yielded
                       /\ MapGet(data, p) = MapGet(pre.data, p)
                       /\ MapGet(meta, p) = MapGet(pre.meta, p)
                 /\ (gen.status = "done" /\ l \in ChildrenOf(gen.arg)
                     /\ Filter(gen.filter, l)) =>
                       l \in Yielded /\ MapHas(data, l) /\ MapHas(meta, l)
        /\ (~gen.skipSymbolicLink /\ gen.status = "done") =>
              \A i \in 1..Len(out) :
                 out[i].e.stat.isDirectory =>
                    \A c \in ChildrenOf(Paths[i]) :
                       Filter(gen.filter, c) =>
                          \E j \in 1..Len(out) :
                             Paths[j] = c /\ out[j].e.depth = out[i].e.depth + 1
        /\ \A i \in 1..Len(out) : Filter(gen.filter, Paths[i])

\* a readDir with skipSymbolicLink has ended over { b.txt, c -> {z.txt}, a/{y.txt} }:
\* it yielded and cached the link c, went into a, and left c/z.txt alone
C35_Witness ==
    /\ gen.kind = "readDir" /\ gen.skipSymbolicLink /\ gen.status = "done" /\ tree = 5
    /\ C \in Yielded /\ MapHas(data, C) /\ AY \in Yielded
    /\ CZ \notin Yielded /\ ~MapHas(data, CZ)

\* the paths whose entries the current traversal has handed over
Reached ==
    IF gen.kind = "findStream"
    THEN {st.files[i] : i \in 1..Len(st.files)}
    ELSE {out[i].e.path : i \in {j \in 1..Len(out) : out[j].t = "entry"}}

ReachedIsReset ==
    gen.kind # "none" =>
        \A p \in Reached :
           /\ MapGet(data, p) = FalseSentinel
           /\ MapGet(meta, p) = statDocument(p)

GetAfterTraversalLoads ==
    (gen.kind # "none" /\ ops' = ops + 1 /\ last'.op = "get" /\ last'.uri \in Reached) =>
        /\ last'.err = "none"
        /\ \E i \in 1..Len(calls') : calls'[i] = <<"loadDocument", last'.uri>>
        /\ last'.ret = loadDocument(last'.uri)

PushAfterTraversalSkips ==
    (gen.kind # "none" /\ ops' = ops + 1 /\ last'.op = "push" /\ last'.err = "none") =>
        \A p \in Reached :
           /\ \A i \in 1..Len(last'.ret) : last'.ret[i] # p
           /\ \A i \in 1..Len(calls') : calls'[i] # <<"saveDocument", p>>
           /\ p \in DOMAIN fsDoc' => (p \in DOMAIN fsDoc /\ fsDoc'[p] = fsDoc[p])

\* C36: whatever set wrote before, a path a readDir, a findStream or the first find has
\* visited holds the false sentinel in data and the listed stat in meta; the get that
\* follows loads the document from the back-end and answers that, not the value set,
\* and the push that follows saves nothing under the path
C36_TraversalDropsUnsaved ==
    /\ []ReachedIsReset
    /\ [][GetAfterTraversalLoads /\ PushAfterTraversalSkips]_vars

\* findStream has visited b.txt, which held the unsaved "v2" of a set newer than the
\* back-end's document when findStream was called: the cache no longer holds it
C36_Witness ==
    /\ gen.kind = "findStream" /\ B \in Reached
    /\ MapGet(pre.data, B) = "v2"
    /\ MapGet(pre.meta, B).mtimeMs > statDocument(B).mtimeMs
    /\ MapGet(data, B) = FalseSentinel /\ MapGet(meta, B) = statDocument(B)

\* the get resumes after a set of the same URI has completed
SetWhileLoading ==
    /\ hist.loading # << >> /\ hist'.loading = << >>
    /\ last.op = "set" /\ last.err = "none" /\ last.uri = hist.loading[1].uri

LoadOverwritesSet ==
    SetWhileLoading =>
        LET u == hist.loading[1].uri
        IN  /\ MapGet(data, u) = last.arg
            /\ MapGet(data', u) \in Loaded
            /\ last'.op = "get" /\ last'.ret = MapGet(data', u)
            /\ MapHas(meta, u) /\ MapGet(meta', u) = MapGet(meta, u)

PushPersistsLoaded ==
    (/\ last.op = "get" /\ last.err = "none" /\ hist.loading = << >>
     /\ ops' = ops + 1 /\ last'.op = "push" /\ last'.err = "none"
     /\ MapHas(meta, last.uri)
     /\ MapGet(meta, last.uri).mtimeMs > statDocument(last.uri).mtimeMs) =>
        /\ last.uri \in DOMAIN fsDoc'
        /\ fsDoc'[last.uri] = last.ret

\* C37: when a set(uri, v) has completed while a get(uri) begun earlier awaited its
\* load, the get puts the loaded document in data[uri] in place of v and answers it,
\* meta[uri] stays what the set made it, and a push that follows the get saves what
\* the get answered
C37_LoadOverwritesSet == [][LoadOverwritesSet /\ PushPersistsLoaded]_vars

\* get(b.txt) has answered the back-end's "v1" after a set(b.txt, "v2") that ran
\* during its load: data holds "v1" under the set's modify time
C37_Witness ==
    /\ last.op = "get" /\ last.uri = B /\ last.ret = "v1" /\ hist.loading = << >>
    /\ MapGet(data, B) = "v1"
    /\ MapHas(meta, B) /\ MapGet(meta, B).mtimeMs = 2 /\ statDocument(B).mtimeMs = 1
    /\ ~MapHas(pre.data, B)

-----------------------------------------------------------------------------
(* Properties of find *)

\* the back-end primitives an operation has called, by name
Called(name) == \E i \in 1..Len(calls) : calls[i][1] = name

\* C3: while every find is consumed to its end, the traversal from the root is
\* started exactly once, by the first find, which leaves the "?loaded" marker in
\* meta; a later find calls no back-end primitive and answers from the data cache;
\* find("missing.txt") on an empty Store traverses once, sets the marker and
\* yields nothing
C3_TraverseOnce ==
    ~hist.cut =>
        /\ hist.traversals =
              IF hist.finds = 0 \/ (hist.finds = 1 /\ gen.kind = "find" /\ gen.phase = "start")
              THEN 0 ELSE 1
        /\ (gen.kind = "find" /\ gen.status = "done") => loaded
        /\ (gen.kind = "find" /\ hist.finds = 1 /\ gen.phase # "start") => gen.traversed
        /\ (gen.kind = "find" /\ hist.finds >= 2) =>
              /\ ~gen.traversed
              /\ ~Called("listDir") /\ ~Called("statDocument") /\ ~Called("loadDocument")
              /\ gen.status = "done" => out = Answer(gen.arg, gen.pred)
        /\ (gen.kind = "find" /\ gen.status = "done" /\ tree = 1 /\ hist.finds = 1
              /\ gen.arg = Missing /\ pre.data = EmptyMap) =>
              /\ Called("listDir")
              /\ out = << >>

\* a second find has been consumed to its end after a first one that traversed a
\* populated tree
C3_Witness ==
    /\ gen.kind = "find" /\ gen.status = "done" /\ ~hist.cut
    /\ hist.finds = 2 /\ hist.traversals = 1 /\ tree = 2
    /\ calls = << >> /\ Len(out) >= 1

\* C4: find yields only URIs, on the first call as on later ones: for a literal
\* URI exactly that URI when it is a key of the data cache and nothing otherwise;
\* for a predicate exactly the cached keys it accepts, each once
C4_FindYieldsUris ==
    (gen.kind = "find" /\ gen.status = "done") =>
        /\ \A i \in 1..Len(out) : out[i].t = "uri"
        /\ gen.pred = "none" =>
              out = IF MapHas(data, gen.arg) THEN << [t |-> "uri", uri |-> gen.arg] >>
                    ELSE << >>
        /\ gen.pred # "none" =>
              /\ {out[i].uri : i \in 1..Len(out)}
                    = {k \in MapKeys(data) : Pred(gen.pred, k, MapGet(data, k))}
              /\ \A i, j \in 1..Len(out) : out[i].uri = out[j].uri => i = j

-----------------------------------------------------------------------------
(* Properties of the cache operations *)

\* the cached modification time push compares, 0 for a key without a meta entry
CachedMtime(k) == IF MapHas(meta, k) THEN MapGet(meta, k).mtimeMs ELSE 0
\* the modification time the back-end reported when the last operation was called
DiskMtime(k) == IF k \in DOMAIN pre.fsStat THEN pre.fsStat[k].mtimeMs ELSE 0
\* the cached keys whose cached modification time is strictly newer
NewerKeys == {k \in MapKeys(data) : CachedMtime(k) > DiskMtime(k)}
\* the positions of the log at which the back-end's save primitive was called
Saves == {i \in 1..Len(calls) : calls[i][1] = "saveDocument"}

\* C5: push() saves, with its cached value, exactly the cached keys whose cached
\* mtimeMs is strictly greater than the mtimeMs the back-end's stat reports, each
\* once, and returns exactly those keys
C5_PushSavesNewer ==
    (last.op = "push" /\ last.uri = << >> /\ last.err = "none") =>
        /\ {calls[i][2] : i \in Saves} = NewerKeys
        /\ Cardinality(Saves) = Cardinality(NewerKeys)
        /\ \A i \in Saves : calls[i][3] = MapGet(data, calls[i][2])
        /\ {last.ret[i] : i \in 1..Len(last.ret)} = NewerKeys
        /\ Len(last.ret) = Cardinality(NewerKeys)
        /\ \A k \in NewerKeys : fsDoc[k] = MapGet(data, k)

\* push() has saved some cached key and left another, not newer than the back-end's
\* copy, unsaved
C5_Witness ==
    /\ last.op = "push" /\ last.uri = << >> /\ last.err = "none"
    /\ Len(last.ret) >= 1 /\ Len(last.ret) < Len(data)
    /\ \E k \in MapKeys(data) : MapHas(meta, k) /\ CachedMtime(k) = DiskMtime(k)

\* C6: push(uri) considers only that URI, and write access is checked for every
\* URI that is saved
C6_PushUriOnly ==
    (last.op = "push" /\ last.uri # << >> /\ last.err = "none") =>
        /\ \A i \in 1..Len(calls) :
              calls[i][1] \in {"statDocument", "saveDocument"} => calls[i][2] = last.uri
        /\ \A i \in 1..Len(last.ret) : last.ret[i] = last.uri
        /\ \A i \in Saves : \E j \in 1..(i - 1) :
              calls[j] = <<"ensureAccess", calls[i][2], "w">>

\* C7: get(uri) calls the back-end's load primitive only when data has no entry for
\* uri or holds the false sentinel; it stores the loaded value in data[uri] and
\* returns the cached value, so a get of the same URI right after it loads nothing
\* more and returns the same value, unless that value is the false sentinel
C7_GetLoadsOnce ==
    [][ (ops' = ops + 1 /\ last'.op = "get" /\ last'.err = "none") =>
          LET u == last'.uri
              miss == ~MapHas(data, u) \/ MapGet(data, u) = FalseSentinel
              loads == {i \in 1..Len(calls') : calls'[i][1] = "loadDocument"}
          IN  /\ miss => /\ Cardinality(loads) = 1
                         /\ \A i \in loads : calls'[i] = <<"loadDocument", u>>
                         /\ data' = MapSet(data, u, loadDocument(u))
              /\ ~miss => loads = {} /\ data' = data
              /\ MapHas(data', u) /\ last'.ret = MapGet(data', u)
              /\ (last.op = "get" /\ last.uri = u /\ last.err = "none"
                    /\ last.ret # FalseSentinel) =>
                    loads = {} /\ last'.ret = last.ret
              /\ UNCHANGED <<meta, fsStat, fsDoc>>
      ]_vars

\* a get answered from the cache right after the get of the same URI that loaded it
C7_Witness ==
    /\ last.op = "get" /\ last.err = "none" /\ ops >= 2
    /\ calls = << <<"ensureAccess", last.uri, "r">> >>
    /\ pre.data = data /\ MapHas(data, last.uri) /\ last.ret = loadDocument(last.uri)
    /\ last.ret = "v1"

\* the fields of a DocumentStat other than its modification time
StatFields == {"isDirectory", "isFile", "isSymbolicLink", "size", "error"}

\* C8: a successful set(uri, v) leaves data[uri] = v and meta[uri] with the current
\* time as mtimeMs and every other field of a previously cached meta[uri] as it
\* was; the entries of every other URI, connected, dbs, root and cwd are unchanged,
\* and no back-end primitive other than the access check is called
C8_SetFrame ==
    [][ (ops' = ops + 1 /\ last'.op = "set" /\ last'.err = "none") =>
          LET u == last'.uri
          IN  /\ MapHas(data', u) /\ MapGet(data', u) = last'.arg
              /\ last'.ret = last'.arg
              /\ MapHas(meta', u) /\ MapGet(meta', u).mtimeMs = now
              /\ MapHas(meta, u) =>
                    \A f \in StatFields : MapGet(meta', u)[f] = MapGet(meta, u)[f]
              /\ MapKeys(data') = MapKeys(data) \cup {u}
              /\ \A k \in MapKeys(data) \ {u} : MapGet(data', k) = MapGet(data, k)
              /\ MapKeys(meta') = MapKeys(meta) \cup {u}
              /\ \A k \in MapKeys(meta) \ {u} : MapGet(meta', k) = MapGet(meta, k)
              /\ \A i \in 1..Len(calls') : calls'[i][1] = "ensureAccess"
              /\ UNCHANGED <<connected, dbs, root, cwd, fsStat, fsDoc>>
      ]_vars

\* set has restamped a meta entry cached earlier from the back-end's stat, next to
\* another cached document
C8_Witness ==
    /\ last.op = "set" /\ last.err = "none" /\ last.uri = B
    /\ MapGet(data, B) = "v2"
    /\ MapGet(meta, B).isFile /\ MapGet(meta, B).size = 3 /\ MapGet(meta, B).mtimeMs = 2
    /\ pre.meta # meta /\ MapHas(pre.meta, B)

\* whether the access predicate rejects the operation op called on uri, given the
\* keys cached when it is called
Rejects(op, uri, keys) ==
    CASE op \in {"get", "stat"} -> ~ensureAccess(uri, "r")
      [] op = "set" -> ~ensureAccess(uri, "w")
      [] op = "push" -> IF uri # << >> THEN ~ensureAccess(uri, "w")
                        ELSE \E k \in keys : ~ensureAccess(k, "w")

\* C9: when ensureAccess rejects, get, set, stat and push fail with the rejection,
\* call no load, stat or save primitive, and leave data and meta unchanged; push()
\* checks write access for every cached key before any save, so a rejection on any
\* key means nothing was saved
C9_RejectionNoEffect ==
    [][ (ops' = ops + 1 /\ last'.op \in {"get", "set", "stat", "push"}) =>
          LET rejected == Rejects(last'.op, last'.uri, MapKeys(data))
              saves == {i \in 1..Len(calls') : calls'[i][1] = "saveDocument"}
          IN  /\ (last'.err = "AccessDenied") <=> rejected
              /\ rejected =>
                    /\ \A i \in 1..Len(calls') : calls'[i][1] = "ensureAccess"
                    /\ ~ensureAccess(calls'[Len(calls')][2], calls'[Len(calls')][3])
                    /\ last'.ret = Undefined
                    /\ UNCHANGED <<data, meta, fsStat, fsDoc>>
              /\ (last'.op = "push" /\ last'.uri = << >> /\ ~rejected) =>
                    \A k \in MapKeys(data) :
                        \E j \in 1..Len(calls') :
                            /\ calls'[j] = <<"ensureAccess", k, "w">>
                            /\ \A i \in saves : j < i
      ]_vars

\* push() was rejected on a later key after an earlier key, newer than the
\* back-end's copy, had passed its check
C9_Witness ==
    /\ last.op = "push" /\ last.uri = << >> /\ last.err = "AccessDenied"
    /\ Len(calls) >= 2 /\ ensureAccess(calls[1][2], "w")
    /\ calls[1][2] \in NewerKeys
    /\ fsStat = pre.fsStat /\ calls[1][2] \notin DOMAIN fsDoc

-----------------------------------------------------------------------------
(* Properties of a rejected traversal *)

\* C10: when ensureAccess rejects read access for a URI reached by a readDir
\* traversal, the starting URI or a nested directory about to be listed, the
\* rejection reaches the consumer and data and meta are exactly as they were before
\* the readDir call
C10_RejectedReadDirNoEffect ==
    (last.op = "readDir" /\ gen.status = "failed" /\ last.err = "AccessDenied") =>
        data = pre.data /\ meta = pre.meta

\* C29: readDir yields no entry for, and records in data and meta no key of, a path
\* whose read access ensureAccess rejects
C29_NoEntryWithoutAccess ==
    last.op = "readDir" =>
        /\ \A i \in 1..Len(out) : <<Paths[i], "r">> \notin denied
        /\ \A k \in MapKeys(data) \cup MapKeys(meta) : <<k, "r">> \notin denied

-----------------------------------------------------------------------------
(* Properties of readDir: filter, termination, cache, parent and depth *)

\* the paths the filter of the running call was written to reject
CallerRejects(path) ==
    \/ gen.filter = "noA" /\ path = A
    \/ gen.filter = "noX" /\ path # << >> /\ path[Len(path)] = "x.txt"

\* the filter accepts the path and every directory between the starting URI and it
FilterAdmits(path) ==
    \A n \in Len(gen.arg)..Len(path) : ~CallerRejects(SubSeq(path, 1, n))

\* C11: readDir yields no entry, and adds no key to data or meta, whose path the
\* caller's filter rejects or that lies below a directory the filter rejects; when
\* the filter rejects the starting URI nothing is yielded and the caches are
\* unchanged
C11_FilterRespected ==
    last.op = "readDir" =>
        /\ \A i \in 1..Len(out) : FilterAdmits(Paths[i])
        /\ \A k \in MapKeys(data) \ MapKeys(pre.data) : FilterAdmits(k)
        /\ \A k \in MapKeys(meta) \ MapKeys(pre.meta) : FilterAdmits(k)
        /\ CallerRejects(gen.arg) =>
              out = << >> /\ data = pre.data /\ meta = pre.meta

\* a readDir from the root whose filter rejects the directory a has ended: only
\* b.txt was yielded and cached, nothing of a
C11_Witness ==
    /\ last.op = "readDir" /\ gen.status = "done" /\ gen.filter = "noA"
    /\ tree = 2 /\ gen.arg = RootUri
    /\ Paths = <<B>> /\ MapKeys(data) = {B} /\ MapKeys(meta) = {B}

\* C12: with a filter that accepts every path, a readDir pulled to exhaustion ends,
\* and when it ends normally it has yielded each descendant of a starting directory
\* exactly once and not the starting directory itself; started at a file it has
\* yielded exactly one entry, for that file, and listed nothing
C12_EachOnceAndEnds ==
    /\ [](( last.op = "readDir" /\ gen.filter = "all" /\ gen.status = "done") =>
            IF statDocument(gen.arg).isDirectory
            THEN /\ {Paths[i] : i \in 1..Len(out)} = Descendants(gen.arg)
                 /\ Len(out) = Cardinality(Descendants(gen.arg))
            ELSE /\ Paths = <<gen.arg>>
                 /\ ~Called("listDir"))
    /\ (gen.status = "running") ~> (gen.status \in {"done", "failed"})

\* a readDir over the three-level tree has ended after yielding its five descendants
C12_Witness ==
    /\ last.op = "readDir" /\ gen.filter = "all" /\ gen.status = "done"
    /\ tree = 4 /\ gen.arg = RootUri /\ Len(out) = 5

\* the directories the running call has listed, and the paths it has visited: the
\* children of those directories and its starting URI
Listed == {calls[i][2] : i \in {j \in 1..Len(calls) : calls[j][1] = "listDir"}}
Visited == {gen.arg} \cup UNION {ChildrenOf(d) : d \in Listed}

\* C13: when readDir yields an entry for a path, data holds the false sentinel and
\* meta that entry's stat for the path; the data and meta entries of paths the
\* traversal has not visited are as they were when readDir was called
C13_CachedAtYield ==
    [][ (gen.kind = "readDir" /\ gen'.kind = "readDir" /\ Len(out') = Len(out) + 1) =>
          LET e == out'[Len(out')].e
          IN  /\ MapHas(data', e.path) /\ MapGet(data', e.path) = FalseSentinel
              /\ MapHas(meta', e.path) /\ MapGet(meta', e.path) = e.stat
              /\ e.path \in Visited'
              /\ \A k \in (MapKeys(data') \cup MapKeys(pre.data)) \ Visited' :
                    /\ MapHas(data', k) /\ MapHas(pre.data, k)
                    /\ MapGet(data', k) = MapGet(pre.data, k)
              /\ \A k \in (MapKeys(meta') \cup MapKeys(pre.meta)) \ Visited' :
                    /\ MapHas(meta', k) /\ MapHas(pre.meta, k)
                    /\ MapGet(meta', k) = MapGet(pre.meta, k)
      ]_vars

\* readDir has yielded b.txt, set to "v2" before the call: the cache holds the
\* false sentinel and the listed stat for it
C13_Witness ==
    /\ gen.kind = "readDir" /\ Len(out) >= 1
    /\ out[Len(out)].e.path = B
    /\ MapGet(pre.data, B) = "v2" /\ MapGet(data, B) = FalseSentinel
    /\ MapGet(meta, B) = out[Len(out)].e.stat

\* C14: every DocumentEntry readDir yields has for parent the URI of the directory
\* that contains it, empty only for the direct children of the root, and for depth
\* the starting depth plus the number of directory levels between the starting URI
\* and that directory
C14_ParentAndDepth ==
    gen.kind = "readDir" =>
        \A i \in 1..Len(out) :
            LET e == out[i].e
                dir == DirOf(e.path)
            IN  /\ e.parent = IF dir = root THEN << >> ELSE dir
                /\ IsPrefix(gen.arg, dir) => e.depth = gen.depth + Len(dir) - Len(gen.arg)

-----------------------------------------------------------------------------
(* Properties of findStream: one StreamEntry per entry, sort and limit *)

\* the order the caller selected, as a comparison of two entries
Compare(a, b) ==
    CASE gen.sort = "name" -> localeCompare(a.name, b.name)
      [] gen.sort = "mtime" -> a.stat.mtimeMs - b.stat.mtimeMs
      [] gen.sort = "size" -> a.stat.size - b.stat.size
Ordered(a, b) == IF gen.order = "asc" THEN Compare(a, b) <= 0 ELSE Compare(a, b) >= 0

\* the files of the StreamEntries emitted so far, in the order of emission
Emitted(o) == [i \in 1..Len(o) |-> o[i].file]

\* C15: findStream emits exactly one StreamEntry per entry the underlying readDir
\* yields, in traversal order; the n-th StreamEntry has the n-th traversal entry
\* for file and the first n traversal entries, in the selected sort order, for files
C15_OnePerEntrySorted ==
    [][ (gen.kind = "findStream" /\ ops' = ops) =>
          IF gen.pending # << >> /\ gen'.status # "failed"
          THEN LET se == out'[Len(out')]
               IN  /\ Len(out') = Len(out) + 1
                   /\ SubSeq(out', 1, Len(out)) = out
                   /\ se.file = gen.pending[1].path
                   /\ st'.heap[se.file] = gen.pending[1]
                   /\ Len(se.files) = Len(out')
                   /\ {se.files[i] : i \in 1..Len(se.files)}
                         = {out'[i].file : i \in 1..Len(out')}
                   /\ \A i, j \in 1..Len(se.files) :
                         i < j => Ordered(st'.heap[se.files[i]], st'.heap[se.files[j]])
                   /\ (gen'.status = "done" /\ gen.limit < 0 /\ tree = 2
                         /\ gen.arg = RootUri) => Emitted(out') = <<A, B, AX, AY>>
          ELSE out' = out
      ]_vars

\* a findStream sorted by mtime has emitted its fourth StreamEntry, whose files are
\* not in the order of the traversal
C15_Witness ==
    /\ gen.kind = "findStream" /\ gen.sort = "mtime" /\ tree = 4
    /\ Len(out) = 4 /\ out[4].files # Emitted(out)
    /\ out[4].file = ADY

\* the number of entries a traversal from the starting URI yields when the filter
\* accepts every path: the descendants of a directory, or the one entry of a file
TraversalSize ==
    IF statDocument(gen.arg).isDirectory THEN Cardinality(Descendants(gen.arg)) ELSE 1

\* C16: with a limit L >= 1 findStream yields exactly min(L, N) StreamEntries, N
\* being the number of entries the traversal would yield, and pulls nothing more
\* from the traversal after the L-th; with the limit omitted it yields all N
C16_LimitRespected ==
    (gen.kind = "findStream" /\ gen.filter = "all") =>
        /\ gen.limit > 0 => Len(out) <= gen.limit
        /\ (gen.limit > 0 /\ Len(out) = gen.limit) =>
              gen.status = "done" /\ gen.stack = << >> /\ gen.pending = << >>
        /\ (gen.status = "done" /\ gen.limit > 0) =>
              Len(out) = IF gen.limit < TraversalSize THEN gen.limit ELSE TraversalSize
        /\ (gen.status = "done" /\ gen.limit < 0) => Len(out) = TraversalSize

\* a findStream with limit 2 over a tree of four entries has ended after two,
\* without listing the directory a
C16_Witness ==
    /\ gen.kind = "findStream" /\ gen.limit = 2 /\ gen.status = "done"
    /\ tree = 2 /\ gen.arg = RootUri /\ Len(out) = 2 /\ TraversalSize = 4
    /\ \A i \in 1..Len(calls) : calls[i] # <<"listDir", A>>

-----------------------------------------------------------------------------
(* Properties of attach, detach and extract *)

\* a detach(d) is being called right after a successful attach(d)
DetachAfterAttach ==
    /\ ops' = ops + 1
    /\ last'.op = "detach"
    /\ last.op = "attach" /\ last.err = "none"
    /\ last'.arg = last.arg

\* the positions of a list of Stores that hold the root and cwd of d
SameRootCwd(list, d) ==
    {i \in 1..Len(list) : list[i].root = d.root /\ list[i].cwd = d.cwd}

\* C17 as stated: whatever Stores are attached, attach(d) followed at once by
\* detach(d) leaves dbs as it was before the attach, the same instances in the same
\* order, and the detach returns [d]
C17_AttachDetachRestores ==
    [][ DetachAfterAttach =>
          /\ dbs' = pre.dbs
          /\ last'.ret = [kind |-> "array", items |-> <<last.arg>>]
      ]_vars

\* C17, amended: attach(d) followed at once by detach(d) leaves dbs as it was before
\* the attach and returns [d] when no Store attached before has the root and cwd
\* of d; otherwise the detach removes and returns the first attached Store with
\* that root and cwd, and d stays in dbs, in the last position
C17_AttachDetachFirstMatch ==
    [][ DetachAfterAttach =>
          LET d == last.arg
              hits == SameRootCwd(pre.dbs, d)
          IN  IF hits = {}
              THEN /\ dbs' = pre.dbs
                   /\ last'.ret = [kind |-> "array", items |-> <<d>>]
              ELSE LET m == CHOOSE i \in hits : \A j \in hits : i <= j
                   IN  /\ last'.ret = [kind |-> "array", items |-> <<pre.dbs[m]>>]
                       /\ dbs' = SubSeq(pre.dbs, 1, m - 1)
                                 \o SubSeq(pre.dbs, m + 1, Len(pre.dbs)) \o <<d>>
      ]_vars

\* detach(d) has returned [d] and left in dbs the Store, of another root, that was
\* attached before d
C17_Witness ==
    /\ last.op = "detach" /\ last.ret.kind = "array" /\ last.ret.items = <<last.arg>>
    /\ Len(pre.dbs) = 2 /\ pre.dbs[2] = last.arg
    /\ dbs = <<pre.dbs[1]>>
    /\ SameRootCwd(dbs, last.arg) = {}

\* a detach is being called with a Store that was never attached
DetachNeverAttached ==
    /\ ops' = ops + 1
    /\ last'.op = "detach"
    /\ last'.arg.id \notin hist.attached

\* an attach is being called with an argument that is not a Store
AttachNotADb ==
    /\ ops' = ops + 1
    /\ last'.op = "attach"
    /\ last'.arg = NotADb

\* C18 as stated: whatever Stores are attached, detach(d) of a Store that was never
\* attached returns false and leaves dbs unchanged; attach of a non-Store throws a
\* TypeError and leaves dbs unchanged
C18_DetachUnknownIsFalse ==
    [][ /\ DetachNeverAttached => (last'.ret.kind = "false" /\ dbs' = dbs)
        /\ AttachNotADb => (last'.err = "TypeError" /\ dbs' = dbs)
      ]_vars

\* C18, amended: detach(d) of a Store that was never attached returns false and
\* leaves dbs unchanged when no attached Store has the root and cwd of d, and
\* otherwise removes and returns the first attached Store that has them; attach of
\* a non-Store throws a TypeError and leaves dbs unchanged
C18_DetachUnknownByRootCwd ==
    [][ /\ DetachNeverAttached =>
              LET hits == SameRootCwd(dbs, last'.arg)
              IN  IF hits = {}
                  THEN last'.ret.kind = "false" /\ dbs' = dbs
                  ELSE LET m == CHOOSE i \in hits : \A j \in hits : i <= j
                       IN  /\ last'.ret = [kind |-> "array", items |-> <<dbs[m]>>]
                           /\ dbs' = SubSeq(dbs, 1, m - 1) \o SubSeq(dbs, m + 1, Len(dbs))
        /\ AttachNotADb => (last'.err = "TypeError" /\ dbs' = dbs)
      ]_vars

\* detach of a Store never attached has returned false with another Store attached
C18_Witness ==
    /\ last.op = "detach" /\ last.ret.kind = "false"
    /\ last.arg.id \notin hist.attached
    /\ dbs # << >> /\ dbs = pre.dbs

-----------------------------------------------------------------------------
(* Properties of extract *)

\* the entries of a map as a set of (key, value) pairs
MapPairs(m) == { <<m[i].k, m[i].v>> : i \in 1..Len(m) }

\* the entries of m whose key lies below p, with p and the slash removed
BelowPairs(m, p) ==
    { <<SubSeq(m[i].k, Len(p) + 1, Len(m[i].k)), m[i].v>> :
        i \in { j \in 1..Len(m) : /\ Len(m[j].k) > Len(p)
                                  /\ SubSeq(m[j].k, 1, Len(p)) = p } }

\* the Store extract returned holds exactly the entries below p, once each
ExtractedBelow(p) ==
    /\ MapPairs(last.ret.data) = BelowPairs(data, p)
    /\ MapPairs(last.ret.meta) = BelowPairs(meta, p)
    /\ Len(last.ret.data) = Cardinality(BelowPairs(data, p))
    /\ Len(last.ret.meta) = Cardinality(BelowPairs(meta, p))

\* the source Store is as it was when extract was called
SourceUntouched ==
    /\ data = pre.data /\ meta = pre.meta /\ dbs = pre.dbs
    /\ root = RootUri

\* C19 as stated: extract(prefix) returns a Store of the same type holding
\* exactly the source entries whose key starts with prefix + "/", with that
\* prefix and slash removed, for every prefix; the source is unchanged, also
\* after the extracted maps are changed.
C19_ExtractByPrefix ==
    last.op = "extract" =>
        /\ last.ret.kind = "DB"
        /\ ~last.ret.changed => ExtractedBelow(last.uri)
        /\ SourceUntouched

\* C19: extract(prefix) returns a Store of the same type holding exactly the
\* source entries whose key starts with p + "/", where p is prefix without its
\* trailing slashes, with p and the slash removed; the source's data, meta,
\* root and dbs are unchanged, also after the extracted maps are changed.
C19_ExtractBelow ==
    last.op = "extract" =>
        /\ last.ret.kind = "DB"
        /\ ~last.ret.changed => ExtractedBelow(StripSlashes(last.uri))
        /\ SourceUntouched

\* extract("./a/") on a Store caching ./a/x.txt and ./b.txt, the extracted
\* entry x.txt then replaced by the caller
C19_Witness ==
    /\ last.op = "extract" /\ last.uri = A \o <<"">> /\ last.ret.changed
    /\ \E i, j \in 1..Len(data) : data[i].k = AX /\ data[j].k = B
    /\ \E i \in 1..Len(last.ret.data), j \in 1..Len(data) :
          /\ last.ret.data[i].k = <<"x.txt">> /\ data[j].k = AX
          /\ last.ret.data[i].v # data[j].v

-----------------------------------------------------------------------------
(* Properties of moveDocument *)

\* the positions in the call log of the back-end's load and save primitives
LoadsAndSaves == {i \in 1..Len(calls) : calls[i][1] \in {"loadDocument", "saveDocument"}}

\* C20: moveDocument(from, to) checks write access on to and read access on
\* from before any load or save; on success it calls the save primitive exactly
\* once, with to and the value get(from) answers, never calls the delete
\* primitive, and leaves from cached with its value; when either access check
\* rejects, nothing is loaded or saved.
C20_MoveChecksThenSaves ==
    last.op = "moveDocument" =>
        LET from == last.uri
            to == last.arg
            rejected == <<to, "w">> \in denied \/ <<from, "r">> \in denied
        IN  /\ \A i \in LoadsAndSaves :
                  /\ \E j \in 1..(i - 1) : calls[j] = <<"ensureAccess", to, "w">>
                  /\ \E j \in 1..(i - 1) : calls[j] = <<"ensureAccess", from, "r">>
            /\ ~Called("dropDocument")
            /\ rejected <=> last.err # "none"
            /\ rejected =>
                  /\ LoadsAndSaves = {}
                  /\ data = pre.data /\ meta = pre.meta /\ fsStat = pre.fsStat
            /\ ~rejected =>
                  /\ Cardinality(Saves) = 1
                  /\ MapHas(data, from)
                  /\ \A i \in Saves : calls[i] = <<"saveDocument", to, MapGet(data, from)>>
                  /\ fsDoc[to] = MapGet(data, from)
                  /\ (MapHas(pre.data, from) /\ MapGet(pre.data, from) # FalseSentinel)
                        => MapGet(data, from) = MapGet(pre.data, from)
                  /\ ~(MapHas(pre.data, from) /\ MapGet(pre.data, from) # FalseSentinel)
                        => MapGet(data, from) = loadDocument(from)

\* a successful move of a document that had to be loaded first, to another URI
C20_Witness ==
    /\ last.op = "moveDocument" /\ last.err = "none"
    /\ last.uri # last.arg
    /\ Called("loadDocument")
    /\ fsDoc[last.arg] = MapGet(data, last.uri)
    /\ MapGet(data, last.uri) # EmptyDoc

-----------------------------------------------------------------------------
(* Properties of the connection *)

\* what holds after each connection operation
ConnectionContract ==
    /\ last.op = "requireConnected" =>
          /\ Called("connect") <=> ~pre.connected
          /\ last.err = "none" => connected
          /\ last.err = "DB is not connected" <=> (Called("connect") /\ ~connected)
          /\ last.err \in {"none", "DB is not connected"}
    /\ last.op = "connect" => connected
    /\ last.op = "disconnect" => ~connected

\* a second connect() in a row changes nothing of the Store
ConnectTwice ==
    (last.op = "connect" /\ last'.op = "connect" /\ ops' = ops + 1) =>
        /\ connected' = connected
        /\ data' = data /\ meta' = meta /\ dbs' = dbs

\* C21: requireConnected calls connect() exactly when connected is false,
\* returns normally only with connected true, and fails with "DB is not
\* connected" exactly when connect() was called and left connected false;
\* connect() is idempotent and disconnect() leaves connected false.
C21_RequireConnected == []ConnectionContract /\ [][ConnectTwice]_vars

\* requireConnected on a disconnected Store whose connect() fails, after a
\* connect() and a disconnect()
C21_Witness ==
    /\ last.op = "requireConnected" /\ last.err = "DB is not connected"
    /\ ~pre.connected /\ ~connected /\ ops >= 3

-----------------------------------------------------------------------------
(* Properties of the caches *)

\* C22: in every state reached by get, set, stat, readDir, find and findStream
\* calls on a Store constructed with empty caches, every key present in data
\* also has an entry in meta.
C22_DataKeysHaveMeta ==
    \A i \in 1..Len(data) : MapHas(meta, data[i].k)

-----------------------------------------------------------------------------
(* Properties of find cut short *)

\* the "?loaded" marker is in meta
Marked(m) == \E i \in 1..Len(m) : m[i].k = LoadedKey

\* the children of the directories the running find has listed so far
FindVisited == UNION {ChildrenOf(d) : d \in Listed}

\* a cache entry is as it was when find was called
AsBefore(k) ==
    /\ MapHas(data, k) <=> MapHas(pre.data, k)
    /\ MapHas(data, k) => MapGet(data, k) = MapGet(pre.data, k)
    /\ MapHas(meta, k) <=> MapHas(pre.meta, k)
    /\ MapHas(meta, k) => MapGet(meta, k) = MapGet(pre.meta, k)

\* a find whose traversal was abandoned or failed before its end
FindCutShort ==
    (gen.kind = "find" /\ gen.status \in {"abandoned", "failed"}
        /\ gen.phase = "traverse") =>
        /\ ~Marked(meta)
        /\ \A k \in MapKeys(data) \cup MapKeys(meta) \cup MapKeys(pre.data)
                      \cup MapKeys(pre.meta) :
              \/ AsBefore(k)
              \/ /\ k \in FindVisited
                 /\ MapHas(data, k) /\ MapGet(data, k) = FalseSentinel
                 /\ MapHas(meta, k) /\ MapGet(meta, k) = statDocument(k)
        /\ \A i \in 1..Len(out) :
              out[i].t = "entry" =>
                  /\ MapHas(data, out[i].e.path)
                  /\ MapGet(data, out[i].e.path) = FalseSentinel

\* the marker appears only when a traversing find resumes after its traversal
\* returned, and a find entered without the marker traverses from the root
MarkerAfterTraversal ==
    /\ (~Marked(meta) /\ Marked(meta')) =>
          /\ gen.kind = "find" /\ gen.phase = "answer" /\ gen.traversed
          /\ gen.stack = << >> /\ gen.status = "running"
    /\ (gen.kind = "find" /\ gen.phase = "start" /\ gen'.phase # "start"
          /\ ops' = ops /\ ~Marked(meta)) =>
          /\ gen'.phase = "traverse" /\ gen'.traversed
          /\ gen'.stack = <<Frame(root, gen.depth + 1)>>
          /\ hist'.traversals = hist.traversals + 1

\* C23: the "?loaded" marker is put into meta only after the first find's root
\* traversal has run to completion; when the consumer abandons the find or the
\* traversal fails before that, the marker stays absent, the caches hold beyond
\* what they held only entries visited so far, each with the false sentinel and
\* its stat, and the next find traverses again from the root.
C23_MarkerOnlyAfterTraversal == []FindCutShort /\ [][MarkerAfterTraversal]_vars

\* a second find traversing from the root after a first one abandoned with
\* entries already cached
C23_Witness ==
    /\ gen.kind = "find" /\ gen.phase = "traverse" /\ gen.status = "running"
    /\ hist.finds = 2 /\ hist.traversals = 2 /\ hist.cut
    /\ ~Marked(meta) /\ Len(pre.data) >= 2

-----------------------------------------------------------------------------
(* Data: flatten, find, findValue, unflatten and merge.  Here a string is    *)
(* the sequence of its characters, "a/[0]" is <<"a", "/", "[", "0", "]">>,   *)
(* so that joining, splitting, wrapping and slicing are computed and not     *)
(* assumed.  A value is a record: t is "s" for a number (v), "n" for null,   *)
(* "u" for undefined, "o" for an object and "a" for an array, whose own      *)
(* properties e are [k, v] records in the order for..in enumerates them:     *)
(* integer-like names ascending, then the others in insertion order.         *)

\* static MAX_DEEP_UNFLATTEN = 99
MAX_DEEP_UNFLATTEN == 99

Val(t, v, e) == [t |-> t, v |-> v, e |-> e]

\* the one element of a set of one element: a value computed once and then used
The(S) == CHOOSE x \in S : TRUE

\* 'object' === typeof x && null !== x
IsObject(x) == x.t \in {"o", "a"}

\* the values `||` replaces: undefined, null and 0
Falsy(x) == x.t \in {"u", "n"} \/ (x.t = "s" /\ x.v = 0)

\* String.prototype.split left out: the whole string as its one segment
SplitWhole(s) == <<s>>

\* s.split(Data.OBJECT_DIVIDER)
RECURSIVE Split(_)
Split(s) ==
    IF \A i \in 1..Len(s) : s[i] # "/" THEN <<s>>
    ELSE LET i == CHOOSE n \in 1..Len(s) : s[n] = "/" /\ \A j \in 1..(n - 1) : s[j] # "/"
         IN  <<SubSeq(s, 1, i - 1)>> \o Split(SubSeq(s, i + 1, Len(s)))

\* segments.join(Data.OBJECT_DIVIDER)
RECURSIVE Join(_)
Join(segs) ==
    IF segs = << >> THEN << >>
    ELSE IF Len(segs) = 1 THEN segs[1]
    ELSE segs[1] \o <<"/">> \o Join(Tail(segs))

\* String(parseInt(digits, 10)): the digits without their leading zeros
RECURSIVE ParseInt(_)
ParseInt(digits) ==
    IF Len(digits) > 1 /\ digits[1] = "0" THEN ParseInt(Tail(digits)) ELSE digits

\* key.match(/^\[(\d+)\]$/): the index as String(parseInt(match[1], 10)), << >> for
\* no match
ArrayIndex(key) ==
    IF /\ Len(key) >= 3 /\ key[1] = "[" /\ key[Len(key)] = "]"
       /\ \A i \in 2..(Len(key) - 1) : key[i] \in {"0", "1", "2"}
    THEN ParseInt(SubSeq(key, 2, Len(key) - 1))
    ELSE << >>

\* obj[name], undefined for a property a value does not own
Prop(obj, name) ==
    IF IsObject(obj) /\ MapHas(obj.e, name) THEN MapGet(obj.e, name) ELSE Val("u", 0, << >>)

\* obj[name] = x: an existing property keeps its place, an integer-like name goes
\* among the integer-like names in ascending order, any other name goes last
SetProp(obj, name, x) ==
    LET isIndex(n) == n \in {<<"0">>, <<"1">>, <<"2">>}
        rank(n) == CASE n = <<"0">> -> 0 [] n = <<"1">> -> 1 [] n = <<"2">> -> 2
                     [] OTHER -> 3
        r == rank(name)
    IN  IF MapHas(obj.e, name) \/ ~isIndex(name)
        THEN [obj EXCEPT !.e = MapSet(obj.e, name, x)]
        ELSE [obj EXCEPT !.e = SelectSeq(obj.e, LAMBDA p : rank(p.k) < r)
                                  \o << [k |-> name, v |-> x] >>
                                  \o SelectSeq(obj.e, LAMBDA p : rank(p.k) > r)]

\* the object reached from obj through the names of at, with its property name set
RECURSIVE SetAt(_, _, _, _)
SetAt(obj, at, name, x) ==
    IF at = << >> THEN SetProp(obj, name, x)
    ELSE SetProp(obj, Head(at), SetAt(Prop(obj, Head(at)), Tail(at), name, x))

\* static flatten(obj, parent = '', res = {}): res is a map from flat keys to leaves
RECURSIVE flatten(_, _, _)
RECURSIVE flattenFrom(_, _, _, _)
flatten(obj, parent, res) == flattenFrom(obj, 1, parent, res)

\* for (let key in obj), from the i-th own property on
flattenFrom(obj, i, parent, res) ==
    IF ~IsObject(obj) \/ i > Len(obj.e) THEN res
    ELSE LET key == obj.e[i].k
             corrKey == IF obj.t = "a" THEN <<"[">> \o key \o <<"]">> ELSE key
             propName == IF parent # << >> THEN parent \o <<"/">> \o corrKey ELSE corrKey
             child == obj.e[i].v
         IN  The({ flattenFrom(obj, i + 1, parent, r) :
                   r \in {IF IsObject(child) THEN flatten(child, propName, res)
                          ELSE MapSet(res, propName, child)} })

\* static find(path, obj), path an array of segments
RECURSIVE DataFind(_, _)
DataFind(path, acc) ==
    IF path = << >> THEN acc
    ELSE IF acc.t = "u" THEN acc
    ELSE LET index == ArrayIndex(Head(path))
             key == IF index # << >> THEN index ELSE Head(path)
             next == Prop(acc, key)
         IN  IF IsObject(next) THEN DataFind(Tail(path), next) ELSE next

\* static findValue(path, obj, skipScalar = false), in its i-th round
RECURSIVE findValue(_, _, _, _)
findValue(path, obj, skipScalar, i) ==
    LET found == DataFind(path, obj)
        value == IF skipScalar /\ found.t \notin {"o", "a", "n"}
                 THEN Val("u", 0, << >>) ELSE found
        parentPath == IF value.t = "u" /\ path # << >>
                      THEN SubSeq(path, 1, Len(path) - 1) ELSE path
    IN  IF value.t = "u" /\ parentPath # << >> /\ i + 1 < MAX_DEEP_UNFLATTEN
        THEN findValue(parentPath, obj, skipScalar, i + 1)
        ELSE [value |-> value, path |-> parentPath]

\* unflatten: for (let i = 0; i < keys.length - 1; i++), from the i-th segment on;
\* the containers along the path are created, path collects the converted segments
RECURSIVE UnflattenPath(_, _, _, _)
UnflattenPath(result, keys, i, path) ==
    IF i > Len(keys) - 1 THEN [result |-> result, path |-> path, err |-> "none"]
    ELSE LET index == ArrayIndex(keys[i])
             curr == IF index # << >> THEN index ELSE keys[i]
             next == keys[i + 1]
             found == DataFind(path, result)
             parent == IF Falsy(found) THEN result ELSE found
             at == IF Falsy(found) THEN << >> ELSE path
             fresh == IF next # << >> /\ ArrayIndex(next) # << >>
                      THEN Val("a", 0, << >>) ELSE Val("o", 0, << >>)
             kept == IF Falsy(Prop(parent, curr)) THEN fresh ELSE Prop(parent, curr)
         IN  IF ~IsObject(parent)
             THEN [result |-> result, path |-> path, err |-> "TypeError"]
             ELSE The({ UnflattenPath(r, keys, i + 1, Append(path, curr)) :
                        r \in {SetAt(result, at, curr, kept)} })

\* unflatten: the body of for (let flatKey in data) for one flat key and its value
UnflattenKey(result, flatKey, x) ==
    LET keys == Split(flatKey)
        key == keys[Len(keys)]
        parentPath == SubSeq(keys, 1, Len(keys) - 2)
        Store(made, fv, up) ==
            LET at == [n \in 1..Len(up.path) |->
                          IF ArrayIndex(up.path[n]) # << >> THEN ArrayIndex(up.path[n])
                          ELSE up.path[n]]
                rest == SubSeq(flatKey, Len(Join(up.path)) + 2, Len(flatKey))
            IN  IF fv.value.t = "a"
                THEN [value |-> SetAt(made.result, fv.path,
                                      IF ArrayIndex(key) # << >> THEN ArrayIndex(key)
                                      ELSE key, x),
                      err |-> "none"]
                ELSE IF fv.value.t = "o"
                THEN [value |-> SetAt(made.result, fv.path, key, x), err |-> "none"]
                ELSE IF up.value.t \in {"o", "a"}
                THEN [value |-> SetAt(made.result, at, rest, x), err |-> "none"]
                ELSE IF up.value.t = "n"
                THEN [value |-> made.result, err |-> "TypeError"]
                ELSE [value |-> made.result, err |-> "Error"]
    IN  The({ IF made.err # "none" THEN [value |-> made.result, err |-> made.err]
              ELSE The({ Store(made, fv, up) :
                           fv \in {findValue(made.path, made.result, FALSE, 0)},
                           up \in {findValue(parentPath, made.result, TRUE, 0)} }) :
              made \in {UnflattenPath(result, keys, 1, << >>)} })

\* static unflatten(data), from the i-th flat key on: the structure built, and the
\* error thrown if any
RECURSIVE unflattenFrom(_, _, _)
unflattenFrom(flat, i, result) ==
    IF i > Len(flat) THEN [value |-> result, err |-> "none"]
    ELSE The({ IF r.err # "none" THEN r ELSE unflattenFrom(flat, i + 1, r.value) :
               r \in {UnflattenKey(result, flat[i].k, flat[i].v)} })

unflatten(flat) == unflattenFrom(flat, 1, Val("o", 0, << >>))

\* JSON.parse(JSON.stringify(x)): own properties holding undefined are dropped, an
\* array keeps its elements only
RECURSIVE JsonClone(_)
JsonClone(x) ==
    IF ~IsObject(x) THEN x
    ELSE LET kept == SelectSeq(x.e, LAMBDA p :
                        /\ p.v.t # "u"
                        /\ x.t = "a" => p.k \in {<<"0">>, <<"1">>, <<"2">>})
         IN  [x EXCEPT !.e = [i \in 1..Len(kept) |->
                                   [k |-> kept[i].k, v |-> JsonClone(kept[i].v)]]]

\* static merge(target, source): the structure returned, and the error thrown if any
RECURSIVE merge(_, _)
RECURSIVE mergeFrom(_, _, _)
merge(target, source) ==
    IF target.t = "u" THEN [value |-> target, err |-> "SyntaxError"]
    ELSE The({ mergeFrom(newTarget, source, 1) : newTarget \in {JsonClone(target)} })

\* for (const key in source), from the i-th own property of source on; an assignment
\* to a property of a number or of null throws in this strict code
mergeFrom(newTarget, source, i) ==
    IF ~IsObject(source) \/ i > Len(source.e) THEN [value |-> newTarget, err |-> "none"]
    ELSE IF ~IsObject(newTarget) THEN [value |-> newTarget, err |-> "TypeError"]
    ELSE LET key == source.e[i].k
             from == source.e[i].v
             slice == [from EXCEPT !.e = SelectSeq(from.e, LAMBDA p :
                                              p.k \in {<<"0">>, <<"1">>, <<"2">>})]
             base == IF Falsy(Prop(newTarget, key)) THEN Val("o", 0, << >>)
                     ELSE Prop(newTarget, key)
             Assign(x) == The({ mergeFrom(r, source, i + 1) :
                                r \in {SetProp(newTarget, key, x)} })
         IN  IF from.t = "a" THEN Assign(slice)
             ELSE IF from.t = "o"
             THEN The({ IF deep.err # "none" THEN [value |-> newTarget, err |-> deep.err]
                        ELSE Assign(deep.value) :
                        deep \in {merge(base, from)} })
             ELSE Assign(from)

-----------------------------------------------------------------------------
(* The Data functions applied to bounded inputs *)

\* the scalar leaves: 0, 1, 2 and null
Leaves == {Val("s", n, << >>) : n \in 0..2}
Null == Val("n", 0, << >>)

\* the objects with at most two of the keys a and b, in either insertion order, and
\* the arrays with at most two elements, over the values V
Containers(V) ==
    LET names == {<<"a">>, <<"b">>}
    IN  {Val("o", 0, << >>), Val("a", 0, << >>)}
        \cup {Val("o", 0, << [k |-> n, v |-> x] >>) : n \in names, x \in V}
        \cup {Val("o", 0, << [k |-> n[1], v |-> x], [k |-> n[2], v |-> y] >>) :
                n \in {<< <<"a">>, <<"b">> >>, << <<"b">>, <<"a">> >>}, x \in V, y \in V}
        \cup {Val("a", 0, << [k |-> <<"0">>, v |-> x] >>) : x \in V}
        \cup {Val("a", 0, << [k |-> <<"0">>, v |-> x], [k |-> <<"1">>, v |-> y] >>) :
                x \in V, y \in V}

\* the structures handed to flatten: up to three levels of containers over the keys
\* a and b, and objects with a key that holds the divider, looks like an index or
\* is empty
Nested ==
    LET one == Leaves \cup Containers(Leaves)
        two == Leaves \cup Containers(one)
        odd == {<<"a", "/", "b">>, <<"[", "0", "]">>, << >>}
    IN  two
        \cup {Val("o", 0, << [k |-> <<"a">>, v |-> x] >>) : x \in Containers(one)}
        \cup {Val("o", 0, << [k |-> n, v |-> x], [k |-> <<"a">>, v |-> y] >>) :
                n \in odd, x \in one, y \in Leaves}
        \cup {Val("o", 0, << [k |-> <<"a">>, v |-> Val("o", 0,
                                << [k |-> n, v |-> x], [k |-> <<"b">>, v |-> y] >>)] >>) :
                n \in odd, x \in Leaves, y \in Leaves}

\* the flat maps handed to unflatten directly: one or two flat keys, in either order
FlatMaps ==
    LET flatKeys == { <<"a">>, <<"a", "/", "b">>, <<"a", "/", "[", "0", "]">>,
                      <<"a", "/", "[", "0", "1", "]">>, <<"[", "0", "]">>,
                      <<"a", "/", "b", "/", "a">>,
                      <<"a", "/", "[", "0", "]", "/", "b">> }
        leaves == Leaves \cup {Null}
        pairs == {<< [k |-> f, v |-> x], [k |-> g, v |-> y] >> :
                     f \in flatKeys, g \in flatKeys, x \in leaves, y \in leaves}
    IN  {<< [k |-> f, v |-> x] >> : f \in flatKeys, x \in leaves}
        \cup {m \in pairs : m[1].k # m[2].k}

\* the objects handed to merge and to find
Objects ==
    Containers(Leaves \cup {Null} \cup Containers({Val("s", 1, << >>)}))

\* the paths handed to find
FindPaths ==
    { <<"a">>, <<"b">>, <<"a", "/", "b">>, <<"a", "/", "[", "1", "]">>,
      <<"a", "/", "[", "0", "1", "]">>, <<"a", "/", "b", "/", "a">> }

\* a Data function returns: the call, its argument and its result are recorded, and
\* the calls before it are kept in their order
Returned(op, arg, ret, err) ==
    /\ ops' = ops + 1
    /\ pre' = IF ops = 0 THEN << >> ELSE Append(pre, last)
    /\ last' = [op |-> op, uri |-> << >>, arg |-> arg, ret |-> ret, err |-> err]
    /\ UNCHANGED <<Backend, AuthData, Config, now, connected, data, meta, gen, st, out,
                   calls, hist>>

\* flatten(x), of an input or of what the unflatten before it returned
flattenCall ==
    \E x \in (IF ops = 0 THEN Nested
              ELSE IF last.op = "unflatten" /\ last.err = "none" THEN {last.ret}
              ELSE {}) :
        \E res \in {flatten(x, << >>, << >>)} : Returned("flatten", x, res, "none")

\* unflatten(m), of an input or of what the flatten before it returned
unflattenCall ==
    \E m \in (IF ops = 0 THEN FlatMaps
              ELSE IF last.op = "flatten" THEN {last.ret}
              ELSE {}) :
        \E r \in {unflatten(m)} : Returned("unflatten", m, r.value, r.err)

\* merge(a, b)
mergeCall ==
    /\ ops = 0
    /\ \E a \in Objects, b \in Objects :
          \E r \in {merge(a, b)} :
              Returned("merge", [target |-> a, source |-> b], r.value, r.err)

\* Data.find(path, obj) with the path given as a string
DataFindCall ==
    /\ ops = 0
    /\ \E path \in FindPaths, obj \in Objects :
          \E found \in {DataFind(Split(path), obj)} :
              Returned("Data.find", [path |-> path, obj |-> obj], found, "none")

NextData ==
    \/ ops < MaxDataOps /\ flattenCall
    \/ ops < MaxDataOps /\ unflattenCall
    \/ mergeCall
    \/ DataFindCall

\* the Data functions need no Store: one back end stands for all
InitData == Init /\ tree = 1 /\ denied = {}

SpecData == InitData /\ [][NextData]_vars

-----------------------------------------------------------------------------
(* Properties of findStream: the entries getProgress compares *)

\* findStream's loop body runs for the entry the traversal has just handed over,
\* after at least one entry was yielded before
StreamStepAfterYield ==
    /\ gen.kind = "findStream" /\ gen.status = "running" /\ gen.pending # << >>
    /\ out # << >> /\ Len(out') = Len(out) + 1

\* the entry getProgress takes as the previous one is the entry yielded before
ComparesPreviousYield ==
    StreamStepAfterYield =>
        Prev(StreamPush(st, gen.pending[1])).path = out[Len(out)].file

\* C30: at every findStream step, whatever the sort key and order, the entry whose
\* parent getProgress compares with the parent of the entry just handed over is the
\* entry yielded immediately before it in traversal order
C30_ComparesPreviousYield == [][ComparesPreviousYield]_out

-----------------------------------------------------------------------------
(* Properties of the Data functions *)

\* the Data call before the last one, and the one before that
Before == pre[Len(pre)]
First == pre[1]

\* unflatten(m) has just returned for the m = flatten(x) of the call before it
Unflattened ==
    /\ ops >= 2 /\ last.op = "unflatten" /\ Before.op = "flatten"
    /\ last.arg = Before.ret

\* flatten has just returned for the structure unflatten(m) built, m = flatten(x)
Reflattened ==
    /\ ops = 3 /\ last.op = "flatten" /\ Before.op = "unflatten" /\ First.op = "flatten"
    /\ Before.err = "none" /\ last.arg = Before.ret /\ Before.arg = First.ret

\* the leaves of a flat map with their paths
LeavesOf(m) == {m[i] : i \in 1..Len(m)}

\* a structure whose containers are all non-empty, whose arrays hold their elements
\* at 0, 1, ... and nothing else, and whose object keys are non-empty, hold no
\* divider and do not look like an array index
RECURSIVE PlainIn(_)
PlainIn(x) ==
    IF x.t \in {"s", "n"} THEN TRUE
    ELSE /\ x.e # << >>
         /\ \A i \in 1..Len(x.e) :
               /\ PlainIn(x.e[i].v)
               /\ x.t = "a" => i <= 3 /\ x.e[i].k = << <<"0", "1", "2">>[i] >>
               /\ x.t = "o" => /\ x.e[i].k # << >>
                               /\ x.e[i].k[1] # "["
                               /\ \A n \in 1..Len(x.e[i].k) : x.e[i].k[n] # "/"

\* an object, not an array, at the top, or the empty object
Plain(x) == x.t = "o" /\ (x.e = << >> \/ PlainIn(x))

\* the example {a: {b: [1, 2]}} and its flat map
ExampleNested ==
    Val("o", 0, << [k |-> <<"a">>, v |-> Val("o", 0, << [k |-> <<"b">>, v |->
        Val("a", 0, << [k |-> <<"0">>, v |-> Val("s", 1, << >>)],
                       [k |-> <<"1">>, v |-> Val("s", 2, << >>)] >>)] >>)] >>)
ExampleFlat ==
    << [k |-> <<"a", "/", "b", "/", "[", "0", "]">>, v |-> Val("s", 1, << >>)],
       [k |-> <<"a", "/", "b", "/", "[", "1", "]">>, v |-> Val("s", 2, << >>)] >>

C25_MergeReturns ==
    (last.op = "merge" /\ last.arg.target.t = "o" /\ last.arg.source.t = "o") =>
        LET a == last.arg.target
            b == last.arg.source
        IN  /\ last.err = "none"
            /\ \A i \in 1..Len(b.e) :
                  LET k == b.e[i].k
                      from == b.e[i].v
                      base == IF Falsy(Prop(a, k)) THEN Val("o", 0, << >>) ELSE Prop(a, k)
                  IN  Prop(last.ret, k) = IF from.t = "o" THEN merge(base, from).value
                                          ELSE from
            /\ \A i \in 1..Len(a.e) :
                  ~MapHas(b.e, a.e[i].k) => Prop(last.ret, a.e[i].k) = a.e[i].v
\* the flat key g comes after a flat key f of the same container, f ends in an array
\* index, which makes the container an array, and g ends in a name
NameIntoArray(f, g) ==
    LET fs == Split(f)
        gs == Split(g)
    IN  /\ Len(fs) >= 2 /\ Len(gs) = Len(fs)
        /\ SubSeq(fs, 1, Len(fs) - 1) = SubSeq(gs, 1, Len(gs) - 1)
        /\ ArrayIndex(fs[Len(fs)]) # << >>
        /\ ArrayIndex(gs[Len(gs)]) = << >>

\* C26: unflatten ends with an error when a flat key whose last segment is not an
\* array index has to be stored in a container that an earlier key made an array
C26_NameIntoArrayReported ==
    (last.op = "unflatten"
       /\ \E i, j \in 1..Len(last.arg) :
             i < j /\ NameIntoArray(last.arg[i].k, last.arg[j].k))
    => last.err # "none"
\* the value located at the segments segs below x: undefined as soon as a segment is
\* missing or the value reached is not a container, a segment of the form [n] being
\* the index n
RECURSIVE ValueAt(_, _)
ValueAt(segs, x) ==
    IF segs = << >> THEN x
    ELSE IF ~IsObject(x) THEN Val("u", 0, << >>)
    ELSE LET index == ArrayIndex(Head(segs))
         IN  ValueAt(Tail(segs), Prop(x, IF index # << >> THEN index ELSE Head(segs)))

\* C27: Data.find(path, obj) returns undefined when a segment of path is missing in
\* obj or the value reached before the last segment is a scalar or null, and the
\* value at the full path otherwise
C27_FindLocates ==
    last.op = "Data.find" => last.ret = ValueAt(Split(last.arg.path), last.arg.obj)
-----------------------------------------------------------------------------
(* The auth server: AuthDB.auth and AuthServer.handleGetUser *)

\* static TOKEN_LIFETIME = 3_600_000 milliseconds, the clock of the model counting
\* hours
TOKEN_LIFETIME == 1

\* the tokens generateToken returns, and the request without an Authorization header
TokenValues == {"t1", "t2"}
NoToken == "undefined"

\* the user names of the requests: the stored users and a name nobody has
Usernames == {"root", "alice", "bob", "carol"}

\* hashPassword(password): the SHA-256 digest of the password
hashPassword(password) == <<"sha256", password>>

\* getUserPath(username) and the two documents of a user
getUserPath(username) == <<"users", username>>
InfoPath(username) == getUserPath(username) \o <<"info.json">>
TokensPath(username) == getUserPath(username) \o <<"tokens.json">>

\* loadDocument(<user>/info.json): << >> for no document, the document in a tuple
\* otherwise
StoredUser(username) ==
    IF username \in DOMAIN users THEN <<users[username]>> ELSE << >>

\* DB.data after get(<user>/info.json): what is cached stays, what is not is loaded;
\* the false that load() left for every document counts as not cached
CachedAfterGet(cache, username) ==
    IF MapHas(cache, InfoPath(username))
    THEN cache
    ELSE MapSet(cache, InfoPath(username), StoredUser(username))

\* AuthDB.getUser(username): data ? new User(data) : null, data being the answer of
\* the Store's get; << >> for null, the user in a tuple otherwise
getUser(username) == MapGet(CachedAfterGet(data, username), InfoPath(username))

\* Date.now() - data.time.getTime() > AuthDB.TOKEN_LIFETIME
Expired(token) == now - MapGet(tokens, token).time > TOKEN_LIFETIME

\* loadDocument(tokensPath, {}): the stored tokens of a user, token -> time
StoredTokens(docs, username) ==
    IF TokensPath(username) \in DOMAIN docs THEN docs[TokensPath(username)] ELSE << >>

\* AuthDB.deleteToken(token): the in-memory map and the stored documents after it
deleteToken(tk, docs, token) ==
    IF ~MapHas(tk, token)
    THEN [tokens |-> tk, docs |-> docs]
    ELSE LET username == MapGet(tk, token).username
         IN  [tokens |-> SelectSeq(tk, LAMBDA p : p.k # token),
              docs |-> Update(docs, TokensPath(username),
                              SelectSeq(StoredTokens(docs, username),
                                        LAMBDA p : p.k # token))]

\* AuthDB.updateToken(token, username, time = new Date())
updateToken(tk, docs, token, username) ==
    [tokens |-> MapSet(tk, token, [time |-> now, username |-> username]),
     docs |-> Update(docs, TokensPath(username),
                     MapSet(StoredTokens(docs, username), token, now))]

\* AuthDB.auth accepting every token as root's
authAny(token) == getUser("root")

\* AuthDB.auth keeping an expired token
authLenient(token) ==
    IF ~MapHas(tokens, token) THEN << >>
    ELSE getUser(MapGet(tokens, token).username)

\* AuthDB.auth(token): the user of a known token that has not expired; an expired
\* token is deleted (TokensAfterAuth)
auth(token) ==
    IF ~MapHas(tokens, token) THEN << >>
    ELSE IF Expired(token) THEN << >>
    ELSE getUser(MapGet(tokens, token).username)

\* the token map and the stored documents after auth(token): deleteToken(token) for
\* an expired token
TokensAfterAuth(token) ==
    IF MapHas(tokens, token) /\ Expired(token)
    THEN deleteToken(tokens, fsDoc, token)
    ELSE [tokens |-> tokens, docs |-> fsDoc]

\* DB.data after auth(token): getUser for a token that is known and has not expired
DataAfterAuth(token) ==
    IF MapHas(tokens, token) /\ ~Expired(token)
    THEN CachedAfterGet(data, MapGet(tokens, token).username)
    ELSE data

\* const { a, b, ...visible } = user
Visible(user, hidden) == [f \in DOMAIN user \ hidden |-> user[f]]

\* res.status(status).json(body)
Respond(op, arg, status, body) ==
    /\ ops' = ops + 1
    /\ last' = [op |-> op, uri |-> << >>, arg |-> arg,
                ret |-> [status |-> status, body |-> body], err |-> "none"]
    /\ UNCHANGED <<tree, denied, fsStat, Config, now, connected, meta, gen, st, out, calls,
                   pre>>

\* a handler that ran without giving way to another answers
Answered(op, arg, status, body) ==
    /\ Respond(op, arg, status, body)
    /\ UNCHANGED hist

\* AuthServer.handleGetUser(req, res): GET /auth/info/:username
handleGetUser(token, username) ==
    LET me == auth(token)
        user == getUser(username)
        arg == [token |-> token, username |-> username]
    IN  /\ tokens' = TokensAfterAuth(token).tokens
        /\ fsDoc' = TokensAfterAuth(token).docs
        /\ UNCHANGED users
        /\ IF me = << >>
           THEN /\ data' = DataAfterAuth(token)
                /\ Answered("handleGetUser", arg, 401, [error |-> "Authorize to get access"])
           ELSE /\ data' = CachedAfterGet(DataAfterAuth(token), username)
                /\ IF user = << >>
                   THEN Answered("handleGetUser", arg, 404, [error |-> "User not found"])
                   ELSE IF me[1].role = "root"
                   THEN Answered("handleGetUser", arg, 200,
                                 Visible(user[1], {"passwordHash", "verificationCode",
                                                   "resetCode"}))
                   ELSE IF user[1].name = me[1].name \/ user[1].isPublic
                   THEN Answered("handleGetUser", arg, 200,
                                 Visible(user[1], {"passwordHash", "verificationCode",
                                                   "resetCode", "resetCodeAt"}))
                   ELSE Answered("handleGetUser", arg, 200,
                                 [username |-> user[1].name, email |-> user[1].email,
                                  createdAt |-> user[1].createdAt])

\* AuthServer.handleSignin(req, res): POST /auth/signin/:username; the token is new
handleSignin(username, password, token) ==
    LET user == getUser(username)
        arg == [username |-> username, password |-> password]
    IN  /\ data' = CachedAfterGet(data, username)
        /\ IF user = << >>
           THEN /\ Answered("handleSignin", arg, 404,
                            [error |-> "Invalid password or username"])
                /\ UNCHANGED <<AuthData, fsDoc>>
           ELSE IF ~user[1].verified
           THEN /\ Answered("handleSignin", arg, 403, [error |-> "Account not verified"])
                /\ UNCHANGED <<AuthData, fsDoc>>
           ELSE IF user[1].passwordHash # hashPassword(password)
           THEN /\ Answered("handleSignin", arg, 401,
                            [error |-> "Invalid password or username"])
                /\ UNCHANGED <<AuthData, fsDoc>>
           ELSE /\ tokens' = updateToken(tokens, fsDoc, token, username).tokens
                /\ fsDoc' = updateToken(tokens, fsDoc, token, username).docs
                /\ UNCHANGED users
                /\ Answered("handleSignin", arg, 200, [token |-> token])

\* AuthServer.handleDeleteAccount(req, res): DELETE /auth/signup/:username; the two
\* documents are dropped, the tokens in memory and the cached document stay
handleDeleteAccount(username) ==
    /\ data' = CachedAfterGet(data, username)
    /\ IF getUser(username) = << >>
       THEN /\ Answered("handleDeleteAccount", username, 404, [error |-> "User not found"])
            /\ UNCHANGED <<AuthData, fsDoc>>
       ELSE /\ users' = [n \in DOMAIN users \ {username} |-> users[n]]
            /\ fsDoc' = [q \in DOMAIN fsDoc \ {TokensPath(username)} |-> fsDoc[q]]
            /\ UNCHANGED tokens
            /\ Answered("handleDeleteAccount", username, 200,
                        [message |-> "Account deleted"])

\* AuthServer.handleRefreshToken(req, res): POST /auth/refresh/:token; newToken is
\* what generateToken returns
handleRefreshToken(token, replace, newToken) ==
    LET arg == [token |-> token, replace |-> replace]
    IN  /\ UNCHANGED <<users, data>>
        /\ IF ~MapHas(tokens, token)
           THEN /\ Answered("handleRefreshToken", arg, 404, [error |-> "Token not found"])
                /\ UNCHANGED <<tokens, fsDoc>>
           ELSE LET issued == updateToken(tokens, fsDoc, newToken,
                                          MapGet(tokens, token).username)
                    after == IF replace
                             THEN deleteToken(issued.tokens, issued.docs, token)
                             ELSE issued
                IN  /\ tokens' = after.tokens
                    /\ fsDoc' = after.docs
                    /\ Answered("handleRefreshToken", arg, 200, [token |-> newToken])

\* the password reset in progress, and its position
Reset == hist.reset[1]
ResetAt(pc) == hist.reset # << >> /\ Reset.pc = pc

\* AuthServer.handleResetPassword(req, res): POST /auth/reset/:username, up to
\* `await this.db.getUser(username)`
handleResetPassword(username, code, password) ==
    /\ hist.reset = << >>
    /\ hist' = [hist EXCEPT !.reset = << [pc |-> "getUser", username |-> username,
                                         code |-> code, password |-> password] >>]
    /\ UNCHANGED <<Backend, AuthData, Config, now, connected, data, meta, gen, st, out, calls,
                   last, pre, ops>>

\* the tokens of a user in the token map, in the order of the map
TokensOf(username) == SelectSeq(tokens, LAMBDA p : p.v.username = username)

\* for (const [token, data] of this.db.tokens.entries()): up to the next await, which
\* is in the deleteToken of the next token of the user or, past the loop, in the
\* updateToken of the new token; the iteration also meets the tokens added meanwhile
ResetInvalidates(user) ==
    /\ IF TokensOf(Reset.username) # << >>
       THEN LET after == deleteToken(tokens, fsDoc, TokensOf(Reset.username)[1].k)
            IN  /\ tokens' = after.tokens
                /\ fsDoc' = after.docs
                /\ hist' = [hist EXCEPT !.reset = << [Reset EXCEPT !.pc = "tokens"]
                                                    @@ [user |-> user] >>]
       ELSE \E token \in {t \in TokenValues : ~MapHas(tokens, t)} :
               /\ tokens' = updateToken(tokens, fsDoc, token, Reset.username).tokens
               /\ fsDoc' = updateToken(tokens, fsDoc, token, Reset.username).docs
               /\ hist' = [hist EXCEPT !.reset = << [Reset EXCEPT !.pc = "saveUser"]
                                                   @@ [user |-> user, token |-> token] >>]
    /\ UNCHANGED <<tree, denied, fsStat, users, Config, now, connected, meta, gen, st, out,
                   calls, last, pre, ops>>

\* handleResetPassword from the answer of getUser: the two refusals, or the new hash
\* on the user in hand and the start of the loop over the tokens
resetChecked ==
    /\ ResetAt("getUser")
    /\ data' = CachedAfterGet(data, Reset.username)
    /\ LET user == getUser(Reset.username)
           arg == [username |-> Reset.username, code |-> Reset.code,
                   password |-> Reset.password]
       IN  IF user = << >>
           THEN /\ Respond("handleResetPassword", arg, 404, [error |-> "Invalid reset code"])
                /\ hist' = [hist EXCEPT !.reset = << >>]
                /\ UNCHANGED <<AuthData, fsDoc>>
           ELSE IF user[1].resetCode # Reset.code
           THEN /\ Respond("handleResetPassword", arg, 401, [error |-> "Invalid reset code"])
                /\ hist' = [hist EXCEPT !.reset = << >>]
                /\ UNCHANGED <<AuthData, fsDoc>>
           ELSE ResetInvalidates([user[1] EXCEPT
                                    !.passwordHash = hashPassword(Reset.password),
                                    !.resetCode = "null", !.updatedAt = now])

\* handleResetPassword from the end of a deleteToken
resetTokens ==
    /\ ResetAt("tokens")
    /\ UNCHANGED data
    /\ ResetInvalidates(Reset.user)

\* handleResetPassword from the end of updateToken: saveUser(user) and the answer
resetSaved ==
    /\ ResetAt("saveUser")
    /\ users' = Update(users, Reset.username, Reset.user)
    /\ hist' = [hist EXCEPT !.reset = << >>]
    /\ Respond("handleResetPassword",
               [username |-> Reset.username, code |-> Reset.code,
                password |-> Reset.password],
               200, [message |-> "Password reset successful", token |-> Reset.token])
    /\ UNCHANGED <<tokens, fsDoc, data>>

\* an hour passes
Elapse ==
    /\ now < MaxAuthTime
    /\ now' = now + 1
    /\ UNCHANGED <<Backend, AuthData, Config, connected, data, meta, gen, st, out, calls,
                   last, pre, hist, ops>>

NextAuth ==
    \/ ops < MaxAuthOps /\ \E t \in TokenValues \cup {NoToken}, n \in Usernames :
                              handleGetUser(t, n)
    \/ ops < MaxAuthOps /\ \E n \in Usernames, p \in {"pw", "guess"},
                              t \in {v \in TokenValues : ~MapHas(tokens, v)} :
                              handleSignin(n, p, t)
    \/ ops < MaxAuthOps /\ \E n \in Usernames : handleDeleteAccount(n)
    \/ Elapse

\* the password reset, with the sign-ins and token refreshes that run while it
\* awaits the database
NextReset ==
    \/ ops < MaxResetOps /\ \E n \in {"alice", "carol"}, c \in {"654321", "000000"} :
                               handleResetPassword(n, c, "new")
    \/ resetChecked
    \/ resetTokens
    \/ resetSaved
    \/ ops < MaxResetOps /\ \E n \in {"alice", "carol"}, p \in {"pw", "new"},
                               t \in {v \in TokenValues : ~MapHas(tokens, v)} :
                               handleSignin(n, p, t)
    \/ ops < MaxResetOps /\ \E t \in TokenValues, r \in BOOLEAN,
                               n \in {v \in TokenValues : ~MapHas(tokens, v)} :
                               handleRefreshToken(t, r, n)

\* the server after start(), the back end of the Store left aside
InitAuth == Init /\ tree = 1 /\ denied = {}

SpecAuth == InitAuth /\ [][NextAuth]_vars

SpecReset == InitAuth /\ [][NextReset]_vars
-----------------------------------------------------------------------------
(* Properties of the auth server *)

\* the fields of a user document that no response may hold
HiddenFields == {"passwordHash", "verificationCode", "resetCode"}

\* the fields of a user document, under the names a response gives them
UserFields == DOMAIN User("", "", FALSE, "") \cup {"username"}

\* the token is known, was issued no more than TOKEN_LIFETIME ago, and belongs to a
\* user getUser finds
TokenAccepted(token) ==
    \E i \in 1..Len(tokens) :
        /\ tokens[i].k = token
        /\ now - tokens[i].v.time <= TOKEN_LIFETIME
        /\ getUser(tokens[i].v.username) # << >>

\* a user-info request is answered in this step
UserInfoAnswered == ops' = ops + 1 /\ last'.op = "handleGetUser"

UserInfoGuarded ==
    UserInfoAnswered =>
        /\ ~TokenAccepted(last'.arg.token) =>
              /\ last'.ret.status = 401
              /\ DOMAIN last'.ret.body \cap UserFields = {}
        /\ DOMAIN last'.ret.body \cap HiddenFields = {}

\* C28: the user-info request answers 401 without any user field unless its token
\* is one AuthDB.auth accepts, and no response, to root, to the user or to another
\* user, holds the passwordHash, verificationCode or resetCode field
C28_UserInfoGuarded == [][UserInfoGuarded]_ops

\* root has read the document of alice, whose reset code is set: the answer holds
\* her other fields and not the code
C28_Witness ==
    /\ last.op = "handleGetUser" /\ last.arg.username = "alice"
    /\ MapHas(tokens, last.arg.token)
    /\ MapGet(tokens, last.arg.token).username = "root"
    /\ last.ret.status = 200
    /\ "resetCodeAt" \in DOMAIN last.ret.body
    /\ users["alice"].resetCode # ""

\* the tokens stored for a user
StoredTokenKeys(docs, username) == MapKeys(StoredTokens(docs, username))

AuthOnlyFreshTokens ==
    UserInfoAnswered =>
        LET token == last'.arg.token
        IN  /\ last'.ret.status # 401 =>
                 /\ MapHas(tokens, token)
                 /\ now - MapGet(tokens, token).time <= TOKEN_LIFETIME
            /\ ~MapHas(tokens, token) =>
                 /\ last'.ret.status = 401
                 /\ UNCHANGED <<tokens, users, fsDoc, data>>
            /\ (MapHas(tokens, token)
                /\ now - MapGet(tokens, token).time > TOKEN_LIFETIME) =>
                 /\ last'.ret.status = 401
                 /\ ~MapHas(tokens', token)
                 /\ token \notin StoredTokenKeys(fsDoc', MapGet(tokens, token).username)
                 /\ \A t \in MapKeys(tokens) \ {token} :
                       MapHas(tokens', t) /\ MapGet(tokens', t) = MapGet(tokens, t)

\* C40: a request is authenticated only with a token that is in the token map and
\* was issued at most TOKEN_LIFETIME ago; an unknown token is refused and nothing
\* changes; an expired token is refused and leaves the token map and the stored
\* tokens of its user, the other tokens staying
C40_AuthOnlyFreshTokens == [][AuthOnlyFreshTokens]_ops

\* root's token was refused after its lifetime: it is no longer in the token map nor
\* in root's stored tokens
C40_Witness ==
    /\ last.op = "handleGetUser" /\ last.ret.status = 401
    /\ last.arg.token \in TokenValues
    /\ ~MapHas(tokens, last.arg.token)
    /\ TokensPath("root") \in DOMAIN fsDoc
    /\ last.arg.token \notin StoredTokenKeys(fsDoc, "root")
    /\ now >= 3

\* a sign-in is answered in this step, for a user whose stored document carries the
\* password of a completed reset
SigninAfterReset ==
    /\ ops' = ops + 1 /\ last'.op = "handleSignin"
    /\ last'.arg.username \in DOMAIN users
    /\ users[last'.arg.username].resetCode = "null"

\* C38: once a password reset has succeeded for a user, a sign-in of that user with
\* the previous password is refused and a sign-in with the new password is answered
\* with a token
C38_ResetReplacesPassword ==
    [][ SigninAfterReset =>
          LET stored == users[last'.arg.username]
          IN  IF stored.passwordHash = hashPassword(last'.arg.password)
              THEN last'.ret.status = 200
              ELSE last'.ret.status = 401
      ]_ops

\* a password reset is answered with success in this step
ResetCompleted ==
    /\ ops' = ops + 1 /\ last'.op = "handleResetPassword" /\ last'.ret.status = 200

\* C39: when a password reset completes, the token map holds one token of the user,
\* the one the reset answers with, whatever sign-in or refresh ran during the reset
C39_OnlyResetTokenLeft ==
    [][ ResetCompleted =>
          \A i \in 1..Len(tokens') :
             tokens'[i].v.username = last'.arg.username =>
                tokens'[i].k = last'.ret.body.token
      ]_ops

====
